---------------------------- MODULE Spec2Model ----------------------------
(***************************************************************************)
(* ChessGame: move tree, cursor, SAN parser / matcher / generator and the  *)
(* PGN lexer / parser / writer pipeline.                                   *)
(*                                                                         *)
(* Text is modelled as a sequence of one-character strings, so that the    *)
(* lexer, the SAN parser and the writer work on characters as the code     *)
(* does.  The rules engine (chesscore) is an external library: it is       *)
(* represented by a small table of legal moves per side to move.           *)
(***************************************************************************)
EXTENDS Integers, Sequences, FiniteSets, TLC

(***************************************************************************)
(* Bounds of the model                                                     *)
(***************************************************************************)
MaxNodes == 4
MaxNextId == 9
MaxMoves == 3
MaxWords == 3
MaxTail == 3
MaxText == 4
MaxCalls == 6
MaxTags == 3
MaxWrites == 3
MaxComment == 3

(***************************************************************************)
(* Program constants                                                       *)
(***************************************************************************)
RootId == 1
FirstFreeId == 2

(***************************************************************************)
(* Generic helpers                                                         *)
(***************************************************************************)
Range(s) == {s[i] : i \in 1..Len(s)}

\* the strings of at most n characters of the set
RECURSIVE TextsUpTo(_, _)
TextsUpTo(chars, n) ==
    IF n = 0 THEN {<<>>}
    ELSE TextsUpTo(chars, n - 1)
             \cup {Append(t, c) : t \in TextsUpTo(chars, n - 1), c \in chars}

Last(s) == s[Len(s)]

Front(s) == SubSeq(s, 1, Len(s) - 1)

RECURSIVE Concat(_)
Concat(ss) == IF ss = <<>> THEN <<>> ELSE Head(ss) \o Concat(Tail(ss))

(***************************************************************************)
(* chesscore: squares, pieces, moves                                       *)
(***************************************************************************)
Sq(f, r) == [file |-> f, rank |-> r]

NoPiece == [type |-> "None", color |-> "None"]

Pc(t, c) == [type |-> t, color |-> c]

OtherColor(c) == IF c = "White" THEN "Black" ELSE "White"

Mv(pc, from, to, cap, promo) ==
    [piece |-> pc, from |-> from, to |-> to, captured |-> cap, promoted |-> promo]

\* chesscore::Move{}: the move of the root node
NoMove == Mv(NoPiece, Sq(0, 0), Sq(0, 0), NoPiece, NoPiece)

IsCastling(m) ==
    /\ m.piece.type = "King"
    /\ m.from.rank = m.to.rank
    /\ (m.from.file - m.to.file = 2 \/ m.to.file - m.from.file = 2)

(***************************************************************************)
(* Move tree (tree.h, tree.cpp): a game is [nodes, next_id]; a node is     *)
(* named by its index in nodes (the shared_ptr identity), index 1 is the   *)
(* root.                                                                   *)
(***************************************************************************)
NoPosition == [stm |-> "None", fullmove |-> 0, check |-> "None", played |-> <<>>]

GameNode(id, move, parent) ==
    [id |-> id, move |-> move, parent |-> parent, children |-> <<>>,
     comment |-> <<>>, premove_comment |-> <<>>, nags |-> <<>>,
     position |-> NoPosition]

\* std::ranges::find_if over m_children: index of the first child with the move, 0 if none
FindChildWithMove(nodes, parent, move) ==
    LET hits == {i \in 1..Len(nodes[parent].children) :
                    nodes[nodes[parent].children[i]].move = move}
    IN IF hits = {} THEN 0
       ELSE nodes[parent].children[CHOOSE i \in hits : \A j \in hits : i <= j]

\* a mutant of append_child that puts a new child in front of the list
AppendChildInFront(nodes, parent, child) ==
    LET found == FindChildWithMove(nodes, parent, child.move)
        h == Len(nodes) + 1
    IN IF found = 0
       THEN [nodes |-> Append([nodes EXCEPT ![parent].children = <<h>> \o @], child),
             ret |-> h]
       ELSE [nodes |-> nodes, ret |-> found]

\* the body of the inline append_child of an older header: push_back always
AppendChildAlways(nodes, parent, child) ==
    LET h == Len(nodes) + 1
    IN [nodes |-> Append([nodes EXCEPT ![parent].children = Append(@, h)], child),
        ret |-> h]

\* GameNode::append_child: returns the existing child with the same move, or appends
AppendChild(nodes, parent, child) ==
    LET found == FindChildWithMove(nodes, parent, child.move)
        h == Len(nodes) + 1
    IN IF found = 0
       THEN [nodes |-> Append([nodes EXCEPT ![parent].children = Append(@, h)], child),
             ret |-> h]
       ELSE [nodes |-> nodes, ret |-> found]

\* NodeId is a uint32_t; the guards of the actions keep m_next_id below MaxNextId,
\* far from the wrap-around, so the ids are plain naturals here.
\* a mutant of Game::add_node that gives the unused id back after a deduplication
AddNodeReuseId(game, parent, move) ==
    LET child == GameNode(game.next_id, move, parent)
        r == AppendChild(game.nodes, parent, child)
    IN [nodes |-> r.nodes,
        next_id |-> IF r.ret # Len(game.nodes) + 1 THEN game.next_id - 1
                    ELSE game.next_id + 1,
        ret |-> r.ret,
        created |-> r.ret = Len(game.nodes) + 1]

\* a mutant of Game::add_node that forgets to advance m_next_id
AddNodeSameId(game, parent, move) ==
    LET child == GameNode(game.next_id, move, parent)
        r == AppendChild(game.nodes, parent, child)
    IN [nodes |-> r.nodes, next_id |-> game.next_id, ret |-> r.ret,
        created |-> r.ret = Len(game.nodes) + 1]

\* a mutant of Game::add_node that gives the candidate the parent of its parent as parent
AddNodeToGrandparent(game, parent, move) ==
    LET child == GameNode(game.next_id, move, game.nodes[parent].parent)
        id1 == game.next_id + 1
        r == AppendChild(game.nodes, parent, child)
        added_is_child == r.ret = Len(game.nodes) + 1
    IN [nodes |-> r.nodes,
        next_id |-> IF added_is_child THEN id1 ELSE id1 + 1,
        ret |-> r.ret,
        created |-> added_is_child]

\* Game::add_node
AddNode(game, parent, move) ==
    LET child == GameNode(game.next_id, move, parent)
        id1 == game.next_id + 1
        r == AppendChild(game.nodes, parent, child)
        added_is_child == r.ret = Len(game.nodes) + 1
    IN [nodes |-> r.nodes,
        next_id |-> IF added_is_child THEN id1 ELSE id1 + 1,
        ret |-> r.ret,
        created |-> added_is_child]

\* Game::Game: the root has id 1 and caches the initial position
NewGame(initial) ==
    [nodes |-> <<[GameNode(RootId, NoMove, 0) EXCEPT !.position = initial]>>,
     next_id |-> FirstFreeId]

(***************************************************************************)
(* Rules engine (chesscore, external): a position is the side to move, the *)
(* full-move number, the check state and the moves made since the initial  *)
(* position; the legal moves depend on the side to move only.              *)
(***************************************************************************)
W == "White"
B == "Black"

W_e4 == Mv(Pc("Pawn", W), Sq(5, 2), Sq(5, 4), NoPiece, NoPiece)
W_Nbd2 == Mv(Pc("Knight", W), Sq(2, 1), Sq(4, 2), NoPiece, NoPiece)
W_Nfd2 == Mv(Pc("Knight", W), Sq(6, 3), Sq(4, 2), NoPiece, NoPiece)
W_cxd5 == Mv(Pc("Pawn", W), Sq(3, 4), Sq(4, 5), Pc("Pawn", B), NoPiece)
W_Qg4 == Mv(Pc("Queen", W), Sq(4, 1), Sq(7, 4), NoPiece, NoPiece)
W_Bb5 == Mv(Pc("Bishop", W), Sq(6, 1), Sq(2, 5), NoPiece, NoPiece)
W_OO == Mv(Pc("King", W), Sq(5, 1), Sq(7, 1), NoPiece, NoPiece)
W_Qd6 == Mv(Pc("Queen", W), Sq(4, 1), Sq(4, 6), NoPiece, NoPiece)
W_exd6 == Mv(Pc("Pawn", W), Sq(5, 5), Sq(4, 6), Pc("Pawn", B), NoPiece)

B_e5 == Mv(Pc("Pawn", B), Sq(5, 7), Sq(5, 5), NoPiece, NoPiece)
B_Nf6 == Mv(Pc("Knight", B), Sq(7, 8), Sq(6, 6), NoPiece, NoPiece)
B_Qxd5 == Mv(Pc("Queen", B), Sq(4, 8), Sq(4, 5), Pc("Pawn", W), NoPiece)
B_OOO == Mv(Pc("King", B), Sq(5, 8), Sq(3, 8), NoPiece, NoPiece)

WhiteLegal == <<W_e4, W_Nbd2, W_Nfd2, W_cxd5, W_Qg4, W_Bb5, W_OO, W_Qd6, W_exd6>>
BlackLegal == <<B_e5, B_Nf6, B_Qxd5, B_OOO>>
CheckingMoves == {W_Bb5}

StartingPosition == [stm |-> W, fullmove |-> 1, check |-> "None", played |-> <<>>]

\* Position::all_legal_moves
AllLegalMoves(pos) == IF pos.stm = W THEN WhiteLegal ELSE BlackLegal

\* Position::make_move
MakeMove(pos, m) ==
    [stm |-> OtherColor(pos.stm),
     fullmove |-> IF pos.stm = B THEN pos.fullmove + 1 ELSE pos.fullmove,
     check |-> IF m \in CheckingMoves THEN "Check" ELSE "None",
     played |-> Append(pos.played, m)]

\* a mutant of calculate_position that replays from the root whatever the nodes cache
RECURSIVE CalculatePositionFromRoot(_, _)
CalculatePositionFromRoot(nodes, h) ==
    IF nodes[h].parent = 0 THEN nodes[h].position
    ELSE MakeMove(CalculatePositionFromRoot(nodes, nodes[h].parent), nodes[h].move)

\* GameNode::calculate_position; NoPosition stands for the thrown ChessGameError
RECURSIVE CalculatePosition(_, _)
CalculatePosition(nodes, h) ==
    IF nodes[h].position # NoPosition THEN nodes[h].position
    ELSE IF nodes[h].parent # 0
         THEN LET pp == CalculatePosition(nodes, nodes[h].parent)
              IN IF pp = NoPosition THEN NoPosition ELSE MakeMove(pp, nodes[h].move)
         ELSE NoPosition

\* a mutant of follow_mainline that follows the last child
RECURSIVE FollowLastLine(_, _)
FollowLastLine(nodes, h) ==
    IF nodes[h].children = <<>> THEN h
    ELSE FollowLastLine(nodes, nodes[h].children[Len(nodes[h].children)])

\* Game::follow_mainline from the cursor on node h
RECURSIVE FollowMainline(_, _)
FollowMainline(nodes, h) ==
    IF nodes[h].children = <<>> THEN h
    ELSE FollowMainline(nodes, nodes[h].children[1])

\* GameNode::set_position
SetNodePosition(nodes, h, position) == [nodes EXCEPT ![h].position = position]

(***************************************************************************)
(* SAN parser (san.cpp).  A string is a sequence of characters.            *)
(***************************************************************************)
FileChars == <<"a", "b", "c", "d", "e", "f", "g", "h">>
RankChars == <<"1", "2", "3", "4", "5", "6", "7", "8">>
PieceChars == <<"P", "R", "N", "B", "Q", "K">>
PieceTypes == <<"Pawn", "Rook", "Knight", "Bishop", "Queen", "King">>

IndexOf(seq, c) == CHOOSE i \in 1..Len(seq) : seq[i] = c

StartsWith(s, prefix) ==
    Len(s) >= Len(prefix) /\ SubSeq(s, 1, Len(prefix)) = prefix

\* std::string_view::substr(n)
Substr(s, n) == SubSeq(s, n + 1, Len(s))

\* chesscore::piece_type_from_char
PieceTypeFromChar(c) == PieceTypes[IndexOf(PieceChars, c)]

\* chesscore::Piece::piece_char_colorless
PieceCharColorless(pc) == PieceChars[IndexOf(PieceTypes, pc.type)]

\* get_token
GetToken(s) ==
    IF s = <<>> THEN [type |-> "Invalid", value |-> <<>>]
    ELSE LET c == s[1]
         IN CASE c \in Range(PieceChars) -> [type |-> "PieceType", value |-> <<c>>]
              [] c \in Range(FileChars) -> [type |-> "File", value |-> <<c>>]
              [] c \in Range(RankChars) -> [type |-> "Rank", value |-> <<c>>]
              [] c = "x" -> [type |-> "Capturing", value |-> <<>>]
              [] c = "+" -> [type |-> "Check", value |-> <<>>]
              [] c = "#" -> [type |-> "Checkmate", value |-> <<>>]
              [] c = "=" -> [type |-> "Promotion", value |-> <<>>]
              [] c \in {"!", "?"} ->
                    [type |-> "SuffixAnnotation",
                     value |-> IF Len(s) < 2 THEN <<c>> ELSE SubSeq(s, 1, 2)]
              [] OTHER -> [type |-> "Invalid", value |-> <<>>]

\* extract_rank, chesscore::File{char}
ExtractRank(v) == IndexOf(RankChars, v[1])
ExtractFile(v) == IndexOf(FileChars, v[1])

\* get_suffix_annotation; "Invalid" stands for InvalidSuffixAnnotation
GetSuffixAnnotation(v) ==
    CASE v = <<"!">> -> "GoodMove"
      [] v = <<"!", "!">> -> "VeryGoodMove"
      [] v = <<"?">> -> "PoorMove"
      [] v = <<"?", "?">> -> "VeryPoorMove"
      [] v = <<"!", "?">> -> "SpeculativeMove"
      [] v = <<"?", "!">> -> "QuestionableMove"
      [] OTHER -> "Invalid"

\* SANMove{}; 0 stands for an absent disambiguation file or rank
EmptySanMove(san) ==
    [san_string |-> san, moving_piece |-> NoPiece, target_square |-> Sq(0, 0),
     capturing |-> FALSE, promotion |-> NoPiece, check_state |-> "None",
     disambiguation_file |-> 0, disambiguation_rank |-> 0,
     suffix_annotation |-> "None",
     target_file |-> 0, target_rank |-> 0, possible_disambiguation |-> FALSE]

\* the parsing functions share [move, s (the rest of the string), token, err]
Advance(st, n) ==
    [st EXCEPT !.s = Substr(st.s, n), !.token = GetToken(Substr(st.s, n))]

\* parse_suffixes
ParseSuffixes(st0) ==
    LET st1 == IF st0.token.type = "Check"
               THEN Advance([st0 EXCEPT !.move.check_state = "Check"], 1)
               ELSE st0
        st2 == IF st1.token.type = "Checkmate"
               THEN IF st1.move.check_state # "None"
                    THEN [st1 EXCEPT !.err = "CheckAndCheckmate"]
                    ELSE Advance([st1 EXCEPT !.move.check_state = "Checkmate"], 1)
               ELSE st1
        st3 == IF st2.err = "None" /\ st2.token.type = "Check"
               THEN IF st2.move.check_state # "None"
                    THEN [st2 EXCEPT !.err = "CheckAndCheckmate"]
                    ELSE Advance([st2 EXCEPT !.move.check_state = "Check"], 1)
               ELSE st2
    IN IF st3.err = "None" /\ st3.token.type = "SuffixAnnotation"
       THEN LET a == GetSuffixAnnotation(st3.token.value)
            IN IF a = "Invalid" THEN [st3 EXCEPT !.err = "InvalidSuffixAnnotation"]
               ELSE [st3 EXCEPT !.move.suffix_annotation = a,
                                !.s = Substr(st3.s, Len(st3.token.value))]
       ELSE st3

\* parse_promotions
ParsePromotions(st, side) ==
    IF st.token.type = "Promotion"
    THEN LET st1 == Advance(st, 1)
         IN IF st1.token.type # "PieceType"
            THEN [st1 EXCEPT !.err = "MissingPieceType"]
            ELSE Advance([st1 EXCEPT !.move.promotion =
                              Pc(PieceTypeFromChar(st1.token.value[1]), side)], 1)
    ELSE st

\* parse_piece_type
ParsePieceType(st, side) ==
    IF st.token.type = "PieceType"
    THEN Advance([st EXCEPT !.move.moving_piece =
                      Pc(PieceTypeFromChar(st.token.value[1]), side)], 1)
    ELSE [st EXCEPT !.move.moving_piece = Pc("Pawn", side)]

\* parse_disambiguation_chars
ParseDisambiguationChars(st) ==
    IF st.token.type = "File"
    THEN LET next_token == GetToken(Substr(st.s, 1))
         IN IF next_token.type # "Rank"
            THEN Advance([st EXCEPT !.move.disambiguation_file =
                              ExtractFile(st.token.value)], 1)
            ELSE Advance([st EXCEPT !.move.target_file = ExtractFile(st.token.value),
                                    !.move.target_rank = ExtractRank(next_token.value),
                                    !.move.possible_disambiguation = TRUE], 2)
    ELSE IF st.token.type = "Rank"
         THEN Advance([st EXCEPT !.move.disambiguation_rank =
                           ExtractRank(st.token.value)], 1)
         ELSE st

TargetToDisambiguation(m) ==
    IF m.possible_disambiguation
    THEN [m EXCEPT !.disambiguation_file = m.target_file,
                   !.disambiguation_rank = m.target_rank,
                   !.possible_disambiguation = FALSE]
    ELSE m

\* parse_capture
ParseCapture(st) ==
    IF st.token.type = "Capturing"
    THEN LET st1 == Advance([st EXCEPT !.move.capturing = TRUE], 1)
         IN [st1 EXCEPT !.move = TargetToDisambiguation(st1.move)]
    ELSE st

\* parse_target_square
ParseTargetSquare(st) ==
    IF st.token.type = "File"
    THEN LET rank_token == GetToken(Substr(st.s, 1))
         IN IF rank_token.type = "Rank"
            THEN Advance([st EXCEPT !.move =
                              [TargetToDisambiguation(st.move) EXCEPT !.target_square =
                                   Sq(ExtractFile(st.token.value),
                                      ExtractRank(rank_token.value))]], 2)
            ELSE [st EXCEPT !.err = "MissingRank"]
    ELSE IF st.move.possible_disambiguation
         THEN [st EXCEPT !.move.target_square = Sq(st.move.target_file, st.move.target_rank),
                         !.move.possible_disambiguation = FALSE]
         ELSE [st EXCEPT !.err = "MissingFile"]

long_castling == <<"O", "-", "O", "-", "O">>
short_castling == <<"O", "-", "O">>

\* parse_castling_move
ParseCastlingMove(san, side) ==
    LET long == StartsWith(san, long_castling)
        target == IF long THEN (IF side = W THEN Sq(3, 1) ELSE Sq(3, 8))
                  ELSE (IF side = W THEN Sq(7, 1) ELSE Sq(7, 8))
        rest == Substr(san, IF long THEN Len(long_castling) ELSE Len(short_castling))
        st0 == [move |-> [EmptySanMove(san) EXCEPT !.moving_piece = Pc("King", side)],
                s |-> rest, token |-> GetToken(rest), err |-> "None"]
        st1 == ParseSuffixes(st0)
    IN IF st1.err # "None" THEN st1
       ELSE [st1 EXCEPT !.move.target_square = target]

\* parse_san: [ok, err, move]
ParseSan(san, side) ==
    LET Result(st) == [ok |-> st.err = "None", err |-> st.err, move |-> st.move]
        st0 == [move |-> EmptySanMove(san), s |-> san, token |-> GetToken(san),
                err |-> "None"]
    IN IF StartsWith(san, short_castling) THEN Result(ParseCastlingMove(san, side))
       ELSE IF st0.token.type = "Invalid"
            THEN Result([st0 EXCEPT !.err = "UnexpectedToken"])
       ELSE LET st3 == ParseCapture(ParseDisambiguationChars(ParsePieceType(st0, side)))
                st4 == ParseTargetSquare(st3)
                st5 == IF st4.err = "None" THEN ParsePromotions(st4, side) ELSE st4
                st6 == IF st5.err = "None" THEN ParseSuffixes(st5) ELSE st5
            IN IF st6.err = "None" /\ st6.s # <<>>
               THEN Result([st6 EXCEPT !.err = "UnexpectedCharsAtEnd"])
               ELSE Result(st6)

(***************************************************************************)
(* SAN matcher and generator (san.cpp)                                     *)
(***************************************************************************)
\* san_move_matches_any_piece_type
SanMoveMatchesAnyPieceType(san_move, move) ==
    /\ san_move.target_square = move.to
    /\ ~ \/ (san_move.disambiguation_file # 0
                /\ san_move.disambiguation_file # move.from.file)
         \/ (san_move.disambiguation_rank # 0
                /\ san_move.disambiguation_rank # move.from.rank)
    /\ ~ \/ (san_move.capturing /\ move.captured = NoPiece)
         \/ (~san_move.capturing /\ move.captured # NoPiece)
    /\ move.promoted = san_move.promotion

\* a mutant of san_move_matches that ignores the disambiguation
SanMoveMatchesNoDisambiguation(san_move, move) ==
    /\ san_move.moving_piece = move.piece
    /\ san_move.target_square = move.to
    /\ san_move.capturing = (move.captured # NoPiece)
    /\ move.promoted = san_move.promotion

\* san_move_matches
SanMoveMatches(san_move, move) ==
    /\ san_move.moving_piece = move.piece
    /\ SanMoveMatchesAnyPieceType(san_move, move)

\* match_san_move
MatchSanMove(san_move, moves) ==
    SelectSeq(moves, LAMBDA move : SanMoveMatches(san_move, move))

\* match_san_move_wildcard_piece_type
MatchSanMoveWildcardPieceType(san_move, moves) ==
    SelectSeq(moves, LAMBDA move : SanMoveMatchesAnyPieceType(san_move, move))

\* find_piece_moves_to_target
FindPieceMovesToTarget(piece, target, moves) ==
    SelectSeq(moves, LAMBDA move : move.piece = piece /\ move.to = target)

\* a mutant of determine_disambiguation that always disambiguates by file
DetermineDisambiguationFileOnly(move, moves) ==
    [file |-> move.from.file, rank |-> 0]

\* determine_disambiguation: [file, rank], 0 for none
DetermineDisambiguation(move, moves) ==
    LET files == {moves[i].from.file : i \in 1..Len(moves)}
        ranks == {moves[i].from.rank : i \in 1..Len(moves)}
    IN IF Cardinality(files) = Len(moves) THEN [file |-> move.from.file, rank |-> 0]
       ELSE IF Cardinality(ranks) = Len(moves) THEN [file |-> 0, rank |-> move.from.rank]
       ELSE [file |-> move.from.file, rank |-> move.from.rank]

\* to_string(chesscore::Square)
SquareToString(sq) == <<FileChars[sq.file], RankChars[sq.rank]>>

NoSanMove == [EmptySanMove(<<>>) EXCEPT !.san_string = <<"-">>, !.check_state = "Absent"]

\* a mutant of generate_san_move's test that disambiguates every piece move
NeedsDisambiguationAlways(move, matching_moves) == move.piece.type # "Pawn"

\* generate_san_move: a piece move is disambiguated when several moves of the piece go
\* to the target square
NeedsDisambiguation(move, matching_moves) ==
    move.piece.type # "Pawn" /\ Len(matching_moves) > 1

\* a mutant of move_list_contains that finds every move
MoveListContainsAny(moves, move) == TRUE

\* chesscore::move_list_contains with FullMoveCompare: equal in every field
MoveListContains(moves, move) == \E i \in 1..Len(moves) : moves[i] = move

\* generate_san_move; NoSanMove stands for std::nullopt
GenerateSanMove(move, moves) ==
    IF ~MoveListContains(moves, move) THEN NoSanMove
    ELSE IF IsCastling(move)
    THEN [EmptySanMove(IF move.to.file = 3 THEN long_castling ELSE short_castling)
             EXCEPT !.moving_piece = move.piece, !.target_square = move.to]
    ELSE LET matching_moves == FindPieceMovesToTarget(move.piece, move.to, moves)
             pawn == move.piece.type = "Pawn"
             disambiguation ==
                 IF NeedsDisambiguation(move, matching_moves)
                 THEN DetermineDisambiguation(move, matching_moves)
                 ELSE [file |-> 0, rank |-> 0]
             san_string ==
                 (IF ~pawn THEN <<PieceCharColorless(move.piece)>> ELSE <<>>)
                 \o (IF pawn
                     THEN (IF move.captured # NoPiece THEN <<FileChars[move.from.file]>>
                           ELSE <<>>)
                     ELSE (IF disambiguation.file # 0
                           THEN <<FileChars[disambiguation.file]>> ELSE <<>>)
                          \o (IF disambiguation.rank # 0
                              THEN <<RankChars[disambiguation.rank]>> ELSE <<>>))
                 \o (IF move.captured # NoPiece THEN <<"x">> ELSE <<>>)
                 \o SquareToString(move.to)
                 \o (IF move.promoted # NoPiece
                     THEN <<"=", PieceCharColorless(move.promoted)>> ELSE <<>>)
         IN IF matching_moves = <<>> THEN NoSanMove
            ELSE [EmptySanMove(san_string) EXCEPT
                     !.moving_piece = move.piece, !.target_square = move.to,
                     !.capturing = move.captured # NoPiece, !.promotion = move.promoted,
                     !.disambiguation_file = disambiguation.file,
                     !.disambiguation_rank = disambiguation.rank]

(***************************************************************************)
(* PGN lexer (pgn.cpp): the input is a std::istream.  A stream is          *)
(* [text, pos, failed, line]: pos is the index of the next character,      *)
(* failed is the failbit that get() sets at the end of the text; with it   *)
(* set, every later get() returns EOF and unget() does nothing.  badbit is *)
(* never set on a string stream, so InputError does not occur.             *)
(***************************************************************************)
EOF == "EOF"
Digits == {"0", "1", "2", "3", "4", "5", "6", "7", "8", "9"}
Letters == {"a", "b", "c", "d", "e", "f", "g", "h", "i", "j", "k", "l", "m", "n", "o", "p", "q", "r", "s", "t", "u", "v", "w", "x", "y", "z"}
    \cup {"A", "B", "C", "D", "E", "F", "G", "H", "I", "J", "K", "L", "M", "N", "O", "P", "Q", "R", "S", "T", "U", "V", "W", "X", "Y", "Z"}
SymbolChars == Letters \cup Digits \cup {"-", "/", "+", "#", "=", "?", "!"}
WhitespaceChars == {" ", "\t", "\n", "\r"}

NewStream(text) == [text |-> text, pos |-> 1, failed |-> FALSE, line |-> 1]

\* std::istream::get
Get(s) ==
    IF s.failed \/ s.pos > Len(s.text)
    THEN [ch |-> EOF, s |-> [s EXCEPT !.failed = TRUE]]
    ELSE [ch |-> s.text[s.pos], s |-> [s EXCEPT !.pos = @ + 1]]

\* std::istream::unget
Unget(s) == IF s.failed \/ s.pos = 1 THEN s ELSE [s EXCEPT !.pos = @ - 1]

Token(type, value, line) == [type |-> type, value |-> value, line |-> line]

\* the result of a lexer call; diverge: the call never returns
Lexed(tok, s) == [tok |-> tok, s |-> s, diverge |-> FALSE]
LexDiverges(s) == [tok |-> Token("None", <<>>, s.line), s |-> s, diverge |-> TRUE]

\* a mutant of is_whitespace that knows the space and the newline only
IsSpaceOrNewline(ch) == ch \in {" ", "\n"}

\* PGNLexer::is_whitespace
IsWhitespace(ch) == ch \in WhitespaceChars

\* PGNLexer::skip_whitespace, from the character already read
RECURSIVE SkipWhitespace(_, _)
SkipWhitespaceFrom(g) == SkipWhitespace(g.s, g.ch)
SkipWhitespace(s, ch) ==
    IF IsWhitespace(ch)
    THEN SkipWhitespaceFrom(Get(IF ch = "\n" THEN [s EXCEPT !.line = @ + 1] ELSE s))
    ELSE Unget(s)

\* PGNLexer::read_string: the loop ends at the closing quote only
RECURSIVE ReadString(_, _)
ReadStringFrom(g, result) ==
    IF g.ch = "\"" THEN Lexed(Token("String", result, g.s.line), g.s)
    ELSE IF g.ch = EOF THEN LexDiverges(g.s)
    ELSE ReadString(g.s, Append(result, g.ch))
ReadString(s, result) == ReadStringFrom(Get(s), result)

\* the inner loop of read_token_starting_with_number: a run of digits
RECURSIVE ReadDigits(_, _, _)
ReadDigitsFrom(g, result) == ReadDigits(g.s, g.ch, result)
ReadDigits(s, ch, result) ==
    IF ch \in Digits THEN ReadDigitsFrom(Get(s), Append(result, ch))
    ELSE [s |-> s, ch |-> ch, result |-> result]

\* the outer loop of read_token_starting_with_number
RECURSIVE ReadNumberLoop(_, _, _, _)
ReadNumberLoopFrom(g, result) == ReadNumberLoop(g.s, g.ch, result, FALSE)
ReadNumberAfterDigits(d, only_numbers) ==
    IF d.ch = "/" \/ d.ch = "-"
    THEN ReadNumberLoopFrom(Get(d.s), Append(d.result, d.ch))
    ELSE [s |-> d.s, result |-> d.result, only_numbers |-> only_numbers]
ReadNumberLoop(s, ch, result, only_numbers) ==
    ReadNumberAfterDigits(ReadDigits(s, ch, result), only_numbers)

GameResults == {<<"1", "-", "0">>, <<"0", "-", "1">>,
                <<"1", "/", "2", "-", "1", "/", "2">>}

\* the end of read_token_starting_with_number, after the unget
NumberToken(s1, result, only_numbers) ==
    IF only_numbers THEN Lexed(Token("Number", result, s1.line), s1)
    ELSE IF result \in GameResults THEN Lexed(Token("GameResult", result, s1.line), s1)
    ELSE Lexed(Token("Invalid", result, s1.line), s1)

NumberTokenOf(r) == NumberToken(Unget(r.s), r.result, r.only_numbers)
ReadNumberFrom(g, first_c) == NumberTokenOf(ReadNumberLoop(g.s, g.ch, <<first_c>>, TRUE))

\* PGNLexer::read_token_starting_with_number
ReadTokenStartingWithNumber(s, first_c) == ReadNumberFrom(Get(s), first_c)

\* PGNLexer::is_symbol_character
IsSymbolCharacter(ch) == ch \in SymbolChars

LexedAt(type, result, s1) == Lexed(Token(type, result, s1.line), s1)

\* PGNLexer::read_symbol
RECURSIVE ReadSymbol(_, _)
ReadSymbolFrom(g, result) ==
    IF IsSymbolCharacter(g.ch) THEN ReadSymbol(g.s, Append(result, g.ch))
    ELSE LexedAt("Symbol", result, Unget(g.s))
ReadSymbol(s, result) == ReadSymbolFrom(Get(s), result)

\* PGNLexer::read_comment: the loop ends at the closing brace only
RECURSIVE ReadComment(_, _)
ReadCommentFrom(g, result) ==
    IF g.ch = "}" THEN Lexed(Token("Comment", result, g.s.line), g.s)
    ELSE IF g.ch = EOF THEN LexDiverges(g.s)
    ELSE ReadComment(IF g.ch = "\n" THEN [g.s EXCEPT !.line = @ + 1] ELSE g.s,
                     Append(result, IF IsWhitespace(g.ch) THEN " " ELSE g.ch))
ReadComment(s, result) == ReadCommentFrom(Get(s), result)

\* PGNLexer::read_nag
RECURSIVE ReadNag(_, _)
ReadNagFrom(g, result) ==
    IF g.ch \in Digits THEN ReadNag(g.s, Append(result, g.ch))
    ELSE LexedAt("NAG", result, Unget(g.s))
ReadNag(s, result) == ReadNagFrom(Get(s), result)

\* a mutant of the end of the input that counts it as the end of a line
EndOfInputOnNewLine(s) == Lexed(Token("EndOfInput", <<>>, s.line), [s EXCEPT !.line = @ + 1])

\* next_token at the end of the stream
EndOfInput(s) == Lexed(Token("EndOfInput", <<>>, s.line), s)

\* the dispatch of PGNLexer::next_token on the first character of the token
TokenStartingWith(s, ch) ==
    IF ch = EOF THEN EndOfInput(s)
    ELSE IF ch \in Digits THEN ReadTokenStartingWithNumber(s, ch)
    ELSE IF ch \in Letters THEN ReadSymbol(s, <<ch>>)
    ELSE IF ch = "[" THEN Lexed(Token("OpenBracket", <<>>, s.line), s)
    ELSE IF ch = "]" THEN Lexed(Token("CloseBracket", <<>>, s.line), s)
    ELSE IF ch = "$" THEN ReadNag(s, <<>>)
    ELSE IF ch = "." THEN Lexed(Token("Dot", <<>>, s.line), s)
    ELSE IF ch = "\"" THEN ReadString(s, <<>>)
    ELSE IF ch = "(" THEN Lexed(Token("OpenParen", <<>>, s.line), s)
    ELSE IF ch = ")" THEN Lexed(Token("CloseParen", <<>>, s.line), s)
    ELSE IF ch = "{" THEN ReadComment(s, <<>>)
    ELSE IF ch = "*" THEN Lexed(Token("GameResult", <<"*">>, s.line), s)
    ELSE Lexed(Token("Invalid", <<ch>>, s.line), s)

TokenFrom(g) == TokenStartingWith(g.s, g.ch)

\* the start of PGNLexer::next_token: whitespace is skipped and the character read again
AfterWhitespace(g1) ==
    TokenFrom(IF IsWhitespace(g1.ch) THEN Get(SkipWhitespace(g1.s, g1.ch)) ELSE g1)

\* PGNLexer::next_token
NextToken(s0) == AfterWhitespace(Get(s0))

\* PGNLexer::skip_back
SkipBack(s) == Unget(s)

(***************************************************************************)
(* PGN parser (pgn.cpp).  A parser is a record of the members of PGNParser *)
(* plus the position of the caller: pc is "idle" between calls, "movetext" *)
(* inside the loop of read_movetext and "diverged" when a lexer loop never *)
(* ends; result and error describe how the last call ended.                *)
(***************************************************************************)
LowerCaseLetters == <<"a", "b", "c", "d", "e", "f", "g", "h", "i", "j", "k", "l", "m", "n", "o", "p", "q", "r", "s", "t", "u", "v", "w", "x", "y", "z">>
UpperCaseLetters == <<"A", "B", "C", "D", "E", "F", "G", "H", "I", "J", "K", "L", "M", "N", "O", "P", "Q", "R", "S", "T", "U", "V", "W", "X", "Y", "Z">>

\* std::tolower on one character
ToLower(ch) ==
    IF \E i \in 1..Len(UpperCaseLetters) : UpperCaseLetters[i] = ch
    THEN LowerCaseLetters[CHOOSE i \in 1..Len(UpperCaseLetters) : UpperCaseLetters[i] = ch]
    ELSE ch

\* lower_case
LowerCase(str) == [i \in 1..Len(str) |-> ToLower(str[i])]

\* GameMetadata::add
MetadataAdd(metadata, name, value) == Append(metadata, [name |-> name, value |-> value])

\* GameMetadata::get; NoValue stands for std::nullopt
NoValue == <<"nullopt">>
MetadataGet(metadata, name) ==
    LET hits == {i \in 1..Len(metadata) : metadata[i].name = name}
    IN IF hits = {} THEN NoValue
       ELSE metadata[CHOOSE i \in hits : \A j \in hits : i <= j].value

ValueOr(v, default) == IF v = NoValue THEN default ELSE v

Top(stack) == stack[Len(stack)]
Pop(stack) == SubSeq(stack, 1, Len(stack) - 1)

\* PGNParser::PGNParser; game_root names the root node object that m_game holds: 1 for
\* the root of the default-constructed game, one more for every Game constructed later
NewParser(text) ==
    [lexer |-> NewStream(text),
     token |-> Token("Invalid", <<>>, 0),
     metadata |-> <<>>,
     game |-> NewGame(StartingPosition),
     game_root |-> 1,
     game_metadata |-> <<>>,
     overall_game_comment |-> <<>>,
     rav_stack |-> <<>>,
     warnings |-> <<>>,
     cursors |-> <<>>,
     pc |-> "idle", result |-> "none", error |-> "None"]

\* PGNParser::next_token
TokenRead(p, r) ==
    IF r.diverge THEN [p EXCEPT !.lexer = r.s, !.pc = "diverged", !.result = "diverge"]
    ELSE [p EXCEPT !.lexer = r.s, !.token = r.tok]
PNextToken(p) == TokenRead(p, NextToken(p.lexer))

\* throw PGNError{type, ...}: the call ends, the members stay as they are
Throw(p, type) == [p EXCEPT !.pc = "idle", !.result = "error", !.error = type]

\* an exception of the standard library that is not a PGNError
ThrowStd(p, what) == [p EXCEPT !.pc = "idle", !.result = "exception", !.error = what]

Running(p) == p.pc = "head" \/ p.pc = "movetext"

\* PGNParser::check_token_type
CheckTokenType(p, expected_type) ==
    IF p.token.type # expected_type THEN Throw(p, "UnexpectedToken") ELSE p

\* PGNParser::expect_token
CheckIfRunning(q, expected_type) ==
    IF Running(q) THEN CheckTokenType(q, expected_type) ELSE q
ExpectToken(p, expected_type) == CheckIfRunning(PNextToken(p), expected_type)

\* a mutant of reset that keeps the warnings of the game before
ResetMetadataOnly(p) == [p EXCEPT !.metadata = <<>>]

\* PGNParser::reset
Reset(p) == [p EXCEPT !.metadata = <<>>, !.warnings = <<>>]

\* PGNParser::read_tag
ReadTagValue(a, b) ==
    IF ~Running(b) THEN b
    ELSE ExpectToken([b EXCEPT !.metadata = MetadataAdd(@, a.token.value, b.token.value)],
                     "CloseBracket")
ReadTagName(a) == IF ~Running(a) THEN a ELSE ReadTagValue(a, ExpectToken(a, "String"))
ReadTag(p) == ReadTagName(ExpectToken(p, "Symbol"))

\* the loop of PGNParser::read_metadata
RECURSIVE ReadTags(_)
ReadTagsNext(b) == IF ~Running(b) THEN b ELSE ReadTags(b)
ReadTagsAfterTag(a) == IF ~Running(a) THEN a ELSE ReadTagsNext(PNextToken(a))
ReadTags(p) == IF p.token.type = "OpenBracket" THEN ReadTagsAfterTag(ReadTag(p)) ELSE p

\* PGNParser::read_metadata
ReadOverallComment(q) ==
    IF ~Running(q) THEN q
    ELSE IF q.token.type = "Comment"
    THEN PNextToken([q EXCEPT !.overall_game_comment = q.token.value])
    ELSE q
ReadMetadata(p) == ReadOverallComment(ReadTags(p))

\* the loop of PGNParser::skip_to_next_game
RECURSIVE SkipTokens(_)
SkipTokensNext(q) == IF q.pc = "diverged" THEN q ELSE SkipTokens(q)
SkipTokens(p) ==
    IF p.token.type # "EndOfInput" /\ p.token.type # "OpenBracket"
    THEN SkipTokensNext(PNextToken(p))
    ELSE p

\* PGNParser::skip_to_next_game
SkipBackAtBracket(q) ==
    IF q.pc = "diverged" THEN q
    ELSE IF q.token.type = "OpenBracket" THEN [q EXCEPT !.lexer = SkipBack(@)]
    ELSE q
SkipToNextGame(p) == SkipBackAtBracket(SkipTokens(p))

\* split_into_words(string, " ")
RECURSIVE SplitIntoWords(_)
SplitIntoWords(string) ==
    IF \E i \in 1..Len(string) : string[i] = " "
    THEN <<SubSeq(string, 1, IndexOf(string, " ") - 1)>>
             \o SplitIntoWords(SubSeq(string, IndexOf(string, " ") + 1, Len(string)))
    ELSE <<string>>

DigitValue(ch) == CHOOSE d \in 0..9 : ToString(d) = ch

RECURSIVE DecimalValue(_)
DecimalValue(v) == IF v = <<>> THEN 0 ELSE 10 * DecimalValue(Front(v)) + DigitValue(Last(v))

FenTag == <<"F", "E", "N">>

\* the exception chesscore::FenString{value} throws on a string that is no FEN
InvalidFen == [NoPosition EXCEPT !.check = "InvalidFen"]

\* chesscore::Position{FenString{value}} (external): of the six fields of a FEN the
\* position keeps the side to move and the full-move number
FenPositionOf(fields) ==
    IF /\ Len(fields) = 6
       /\ fields[2] \in {<<"w">>, <<"b">>}
       /\ fields[6] # <<>> /\ \A i \in 1..Len(fields[6]) : fields[6][i] \in Digits
    THEN [stm |-> IF fields[2] = <<"w">> THEN W ELSE B,
          fullmove |-> DecimalValue(fields[6]),
          check |-> "None",
          played |-> <<>>]
    ELSE InvalidFen
FenPosition(value) == FenPositionOf(SplitIntoWords(value))

\* a mutant of Game::Game(metadata) that ignores the FEN tag
InitialPositionStandard(metadata) == StartingPosition

\* Game::Game(metadata): the position the root caches
InitialPosition(metadata) ==
    IF MetadataGet(metadata, FenTag) = NoValue THEN StartingPosition
    ELSE FenPosition(MetadataGet(metadata, FenTag))

\* Cursor::set_comment on the root
SetComment(game, h, comment) == [game EXCEPT !.nodes[h].comment = comment]

\* a mutant of setup_game that keeps the Game it has instead of assigning a new one
SetupGameInPlace(p) ==
    IF InitialPosition(p.metadata) = InvalidFen THEN ThrowStd(p, "chesscore::InvalidFen")
    ELSE [p EXCEPT !.game = IF p.overall_game_comment # <<>>
                            THEN SetComment(@, 1, p.overall_game_comment) ELSE @,
                   !.game_metadata = p.metadata,
                   !.cursors = <<1>>]

\* PGNParser::setup_game
SetupGameWith(p, g) ==
    [p EXCEPT !.game = IF p.overall_game_comment # <<>>
                       THEN SetComment(g, 1, p.overall_game_comment) ELSE g,
              !.game_root = @ + 1,
              !.game_metadata = p.metadata,
              !.cursors = <<1>>]
SetupGame(p) ==
    IF InitialPosition(p.metadata) = InvalidFen THEN ThrowStd(p, "chesscore::InvalidFen")
    ELSE SetupGameWith(p, NewGame(InitialPosition(p.metadata)))

Chess960 == <<"c", "h", "e", "s", "s", "9", "6", "0">>
VariantTag == <<"V", "a", "r", "i", "a", "n", "t">>

\* PGNParser::read_game up to the call of read_movetext
RECURSIVE ReadGameHead(_)
EnterMovetext(q) == IF Running(q) THEN [q EXCEPT !.pc = "movetext"] ELSE q
ReadGameAgain(d) == IF ~Running(d) THEN d ELSE ReadGameHead(d)
ReadGameAfterMetadata(c) ==
    IF ~Running(c) THEN c
    ELSE IF LowerCase(ValueOr(MetadataGet(c.metadata, VariantTag), <<>>)) = Chess960
    THEN ReadGameAgain(SkipToNextGame(c))
    ELSE EnterMovetext(SetupGame(c))
ReadGameAtBracket(b) == IF ~Running(b) THEN b ELSE ReadGameAfterMetadata(ReadMetadata(b))
ReadGameFirstToken(a) ==
    IF ~Running(a) THEN a
    ELSE IF a.token.type = "EndOfInput" THEN [a EXCEPT !.pc = "idle", !.result = "nullopt"]
    ELSE ReadGameAtBracket(CheckTokenType(a, "OpenBracket"))
ReadGameHead(p) ==
    ReadGameFirstToken(
        PNextToken(Reset([p EXCEPT !.pc = "head", !.result = "pending", !.error = "None"])))

Warning(type, line, description) == [type |-> type, line |-> line, description |-> description]

\* the node the top cursor points to
CurrentGameLine(p) == Top(p.cursors)

\* Cursor::position of the top cursor
CurrentPosition(p) == CalculatePosition(p.game.nodes, CurrentGameLine(p))

\* the digits of a string without leading zeros
RECURSIVE StripZeros(_)
StripZeros(v) == IF v # <<>> /\ Head(v) = "0" THEN StripZeros(Tail(v)) ELSE v

\* lexicographic order of two digit strings of the same length
RECURSIVE DigitsGreater(_, _)
DigitsGreater(v, w) ==
    IF v = <<>> THEN FALSE
    ELSE IF Head(v) # Head(w) THEN DigitValue(Head(v)) > DigitValue(Head(w))
    ELSE DigitsGreater(Tail(v), Tail(w))

IntMaxDigits == <<"2", "1", "4", "7", "4", "8", "3", "6", "4", "7">>

\* std::stoi on a string of digits: [ok, value, what]
StoI(v) ==
    LET d == StripZeros(v)
    IN IF v = <<>> THEN [ok |-> FALSE, value |-> 0, what |-> "std::invalid_argument"]
       ELSE IF Len(d) > Len(IntMaxDigits)
               \/ (Len(d) = Len(IntMaxDigits) /\ DigitsGreater(d, IntMaxDigits))
       THEN [ok |-> FALSE, value |-> 0, what |-> "std::out_of_range"]
       ELSE [ok |-> TRUE, value |-> DecimalValue(d), what |-> "None"]

\* PGNParser::annotate_move
\* a mutant of annotate_move that puts the NAG in front of the list
AnnotateWithInFront(p, n) ==
    IF ~n.ok THEN ThrowStd(p, n.what)
    ELSE PNextToken([p EXCEPT !.game.nodes[CurrentGameLine(p)].nags = <<n.value>> \o @])

\* PGNParser::annotate_move after std::stoi
AnnotateWith(p, n) ==
    IF ~n.ok THEN ThrowStd(p, n.what)
    ELSE PNextToken([p EXCEPT !.game.nodes[CurrentGameLine(p)].nags = Append(@, n.value)])
AnnotateMove(p) == AnnotateWith(p, StoI(p.token.value))

\* a mutant of process_move_comment that keeps every comment on the current node
ProcessMoveCommentNoRav(p) ==
    PNextToken([p EXCEPT !.game.nodes[CurrentGameLine(p)].comment = @ \o p.token.value])

\* PGNParser::process_move_comment
ProcessMoveComment(p) ==
    PNextToken(IF p.rav_stack # <<>> /\ ~Top(p.rav_stack).has_moves
               THEN [p EXCEPT !.rav_stack[Len(p.rav_stack)].comment = p.token.value]
               ELSE [p EXCEPT !.game.nodes[CurrentGameLine(p)].comment = @ \o p.token.value])

\* a mutant of start_rav without the parent check: the variation starts at the node itself
StartRavNoCheck(p) ==
    LET parent == p.game.nodes[CurrentGameLine(p)].parent
    IN PNextToken([p EXCEPT !.cursors = Append(@, IF parent # 0 THEN parent ELSE CurrentGameLine(p)),
                            !.rav_stack = Append(@, [has_moves |-> FALSE, comment |-> <<>>])])

\* PGNParser::start_rav
StartRav(p) ==
    LET parent == p.game.nodes[CurrentGameLine(p)].parent
    IN IF parent # 0
       THEN PNextToken([p EXCEPT !.cursors = Append(@, parent),
                                 !.rav_stack = Append(@, [has_moves |-> FALSE, comment |-> <<>>])])
       ELSE Throw(p, "CannotStartRav")

\* the end of finish_rav: the RAV descriptor is popped after the next token is read
PopRav(q) ==
    IF ~Running(q) THEN q
    ELSE IF q.rav_stack # <<>> THEN [q EXCEPT !.rav_stack = Pop(@)] ELSE q

\* a mutant of finish_rav that tests the RAV stack instead of the cursor stack
FinishRavByRavStack(p) ==
    IF p.rav_stack # <<>>
    THEN PopRav(PNextToken([p EXCEPT !.cursors = IF Len(@) > 1 THEN Pop(@) ELSE @]))
    ELSE Throw(p, "NoPenRav")

\* PGNParser::finish_rav
FinishRav(p) ==
    IF Len(p.cursors) > 1
    THEN PopRav(PNextToken([p EXCEPT !.cursors = Pop(@)]))
    ELSE Throw(p, "NoPenRav")

\* the loop of PGNParser::read_move_number_indication
RECURSIVE SkipDots(_)
SkipDots(p) ==
    IF Running(p) /\ p.token.type = "Dot" THEN SkipDots(PNextToken(p)) ELSE p

\* PGNParser::read_move_number_indication
ReadMoveNumberIndication(p) == SkipDots(PNextToken(p))

\* match_move, the strict matcher that find_legal_move calls
MatchMove(san_move, moves) == MatchSanMove(san_move, moves)

Resolved(move, warnings) == [ok |-> TRUE, move |-> move, error |-> "None", warnings |-> warnings]
Unresolved(error) == [ok |-> FALSE, move |-> NoMove, error |-> error, warnings |-> <<>>]

\* a mutant of find_legal_move that tries the missing capture before the piece type
ResolveCaptureFirst(san_move, line, matched_moves, matched_without_piece_type, matched_captures) ==
    IF Len(matched_moves) = 1 THEN Resolved(matched_moves[1], <<>>)
    ELSE IF Len(matched_moves) > 1 THEN Unresolved("AmbiguousMove")
    ELSE IF ~san_move.capturing /\ Len(matched_captures) = 1
    THEN Resolved(matched_captures[1],
                  <<Warning("MoveMissingCapture", line, san_move.san_string)>>)
    ELSE IF Len(matched_without_piece_type) = 1
    THEN Resolved(matched_without_piece_type[1],
                  <<Warning("MoveMissingPieceType", line, san_move.san_string)>>)
    ELSE Unresolved("IllegalMove")

\* the decisions of find_legal_move on the three match lists
Resolve(san_move, line, matched_moves, matched_without_piece_type, matched_captures) ==
    IF Len(matched_moves) = 1 THEN Resolved(matched_moves[1], <<>>)
    ELSE IF Len(matched_moves) > 1 THEN Unresolved("AmbiguousMove")
    ELSE IF Len(matched_without_piece_type) = 1
    THEN Resolved(matched_without_piece_type[1],
                  <<Warning("MoveMissingPieceType", line, san_move.san_string)>>)
    ELSE IF ~san_move.capturing /\ Len(matched_captures) = 1
    THEN Resolved(matched_captures[1],
                  <<Warning("MoveMissingCapture", line, san_move.san_string)>>)
    ELSE Unresolved("IllegalMove")

\* a mutant of find_legal_move that never retries the token as a capture
FindLegalMoveNoCaptureRetry(san_move, legal_moves, line) ==
    IF legal_moves = <<>> THEN Unresolved("IllegalMove")
    ELSE Resolve(san_move, line,
                 MatchMove(san_move, legal_moves),
                 MatchSanMoveWildcardPieceType(san_move, legal_moves),
                 <<>>)

\* PGNParser::find_legal_move: [ok, move, error, warnings], warnings are the ones it records
FindLegalMove(san_move, legal_moves, line) ==
    IF legal_moves = <<>> THEN Unresolved("IllegalMove")
    ELSE Resolve(san_move, line,
                 MatchMove(san_move, legal_moves),
                 MatchSanMoveWildcardPieceType(san_move, legal_moves),
                 MatchMove([san_move EXCEPT !.capturing = TRUE], legal_moves))

\* convert_to_nag
ConvertToNag(suffix_annotation) ==
    CASE suffix_annotation = "GoodMove" -> 1
      [] suffix_annotation = "PoorMove" -> 2
      [] suffix_annotation = "VeryGoodMove" -> 3
      [] suffix_annotation = "VeryPoorMove" -> 4
      [] suffix_annotation = "SpeculativeMove" -> 5
      [] suffix_annotation = "QuestionableMove" -> 6

\* the end of process_move: the node is annotated and the next token read
PlayFound(p, san_move, found, added) ==
    PNextToken(
        [p EXCEPT
            !.warnings = @ \o found.warnings,
            !.game = [nodes |->
                         [added.nodes EXCEPT
                             ![added.ret].nags =
                                 IF san_move.suffix_annotation # "None"
                                 THEN Append(@, ConvertToNag(san_move.suffix_annotation))
                                 ELSE @,
                             ![added.ret].premove_comment =
                                 IF p.rav_stack # <<>> THEN @ \o Top(p.rav_stack).comment
                                 ELSE @],
                      next_id |-> added.next_id],
            !.cursors[Len(p.cursors)] = added.ret,
            !.rav_stack = IF p.rav_stack = <<>> THEN @
                          ELSE [@ EXCEPT ![Len(p.rav_stack)] =
                                   [has_moves |-> TRUE, comment |-> <<>>]]])

\* process_move after find_legal_move: cursor.play_move(move)
ProcessFound(p, san_move, found) ==
    IF ~found.ok THEN Throw(p, found.error)
    ELSE PlayFound(p, san_move, found, AddNode(p.game, CurrentGameLine(p), found.move))

\* process_move after parse_san_move
ProcessParsed(p, san_exp, position) ==
    IF ~san_exp.ok THEN Throw(p, "InvalidMove")
    ELSE ProcessFound(p, san_exp.move,
                      FindLegalMove(san_exp.move, AllLegalMoves(position), p.token.line))

ProcessMoveAt(p, position) ==
    ProcessParsed(p, ParseSan(p.token.value, position.stm), position)

\* PGNParser::process_move (with parse_san_move)
ProcessMove(p) == ProcessMoveAt(p, CurrentPosition(p))

\* PGNParser::read_move
ProcessIfRunning(q) == IF Running(q) THEN ProcessMove(q) ELSE q
ReadMove(p) == ProcessIfRunning(CheckTokenType(p, "Symbol"))

\* the Dot case of read_movetext
UnexpectedDot(p) ==
    PNextToken([p EXCEPT !.warnings = Append(@, Warning("UnexpectedChar", p.token.line, <<".">>))])

\* the Invalid case of read_movetext
InvalidToken(p) ==
    IF p.token.value = <<",">> \/ p.token.value = <<"}">>
    THEN PNextToken([p EXCEPT !.warnings =
                        Append(@, Warning("UnexpectedChar", p.token.line, p.token.value))])
    ELSE Throw(p, "UnexpectedToken")

\* the end of read_movetext and of read_game: return m_game
ReturnGame(p) == [p EXCEPT !.pc = "idle", !.result = "game"]

\* one iteration of the loop of PGNParser::read_movetext
MovetextStep(p) ==
    CASE p.token.type = "GameResult" -> ReturnGame(p)
      [] p.token.type = "Number" -> ReadMoveNumberIndication(p)
      [] p.token.type = "Dot" -> UnexpectedDot(p)
      [] p.token.type = "Symbol" -> ReadMove(p)
      [] p.token.type = "NAG" -> AnnotateMove(p)
      [] p.token.type = "Comment" -> ProcessMoveComment(p)
      [] p.token.type = "OpenParen" -> StartRav(p)
      [] p.token.type = "CloseParen" -> FinishRav(p)
      [] p.token.type = "Invalid" -> InvalidToken(p)
      [] OTHER -> Throw(p, "UnexpectedToken")

\* PGNParser::read_movetext
RECURSIVE ReadMovetext(_)
ReadMovetext(p) == IF p.pc = "movetext" THEN ReadMovetext(MovetextStep(p)) ELSE p

\* PGNParser::read_game
ReadGame(p) == ReadMovetext(ReadGameHead(p))

(***************************************************************************)
(* PGNTokenOutput and PGNWriter                                            *)
(***************************************************************************)
MaxLineLength == 79

\* std::to_string on a non-negative int
RECURSIVE ToDecimal(_)
ToDecimal(n) == IF n < 10 THEN <<ToString(n)>> ELSE Append(ToDecimal(n \div 10), ToString(n % 10))

\* PGNWriter with its PGNTokenOutput; error is the PGNError write_move threw.  log is
\* kept for the reader of the model: the tokens handed to write_token, each move with
\* the position it is played from
NewWriter ==
    [out |-> <<>>, last_out_token |-> "None", current_line_length |-> 0,
     write_black_move_number |-> FALSE, error |-> "None", log |-> <<>>]

\* PGNTokenOutput::newline
Newline(w) ==
    [w EXCEPT !.out = Append(@, "\n"), !.current_line_length = 0, !.last_out_token = "None"]

\* PGNTokenOutput::needs_whitespace
NeedsWhitespace(w, type) ==
    \/ w.last_out_token = "MoveNumber"
    \/ w.last_out_token = "RavEnd"
    \/ (w.last_out_token = "Move" /\ type # "RavEnd")
    \/ w.last_out_token = "Comment"
    \/ w.last_out_token = "Nag"

Emit(w, type, token, need_ws) ==
    [w EXCEPT !.out = @ \o (IF need_ws THEN <<" ">> ELSE <<>>) \o token,
              !.current_line_length = @ + (IF need_ws THEN 1 ELSE 0) + Len(token),
              !.last_out_token = type,
              !.log = Append(@, [type |-> type, token |-> token, from |-> NoPosition])]

\* a mutant of write_token that keeps the space in front of a token on a new line
WriteTokenWithSpace(w, type, token) ==
    IF w.current_line_length + Len(token) + (IF NeedsWhitespace(w, type) THEN 1 ELSE 0)
           > MaxLineLength
    THEN Emit(Newline(w), type, token, NeedsWhitespace(w, type))
    ELSE Emit(w, type, token, NeedsWhitespace(w, type))

\* PGNTokenOutput::write_token
WriteToken(w, type, token) ==
    IF w.current_line_length + Len(token) + (IF NeedsWhitespace(w, type) THEN 1 ELSE 0)
           > MaxLineLength
    THEN Emit(Newline(w), type, token, FALSE)
    ELSE Emit(w, type, token, NeedsWhitespace(w, type))

\* PGNTokenOutput::write_comment, the loop from the k-th word
RECURSIVE WriteWords(_, _, _)
WriteWords(w, words, k) ==
    IF k > Len(words) THEN w
    ELSE WriteWords(WriteToken(w, "Comment",
                               IF k = 1 THEN <<"{">> \o words[k]
                               ELSE IF k = Len(words) THEN words[k] \o <<"}">>
                               ELSE words[k]),
                    words, k + 1)

\* PGNTokenOutput::write_comment
WriteComment(w, comment) == WriteWords(w, SplitIntoWords(comment), 1)

\* PGNWriter::write_tag_pair
WriteTagPair(w, name, value) ==
    Newline(WriteToken(w, "Tag", <<"[">> \o name \o <<" ", "\"">> \o value \o <<"\"", "]">>))

\* GameMetadata::str_tags
StrTags ==
    <<<<"E", "v", "e", "n", "t">>, <<"S", "i", "t", "e">>,
      <<"D", "a", "t", "e">>, <<"R", "o", "u", "n", "d">>,
      <<"W", "h", "i", "t", "e">>, <<"B", "l", "a", "c", "k">>,
      <<"R", "e", "s", "u", "l", "t">>>>

\* GameMetadata::is_str_tag
IsStrTag(name) == \E i \in 1..Len(StrTags) : StrTags[i] = name

\* PGNWriter::write_str_tags, from the k-th tag of the roster
RECURSIVE WriteStrTags(_, _, _)
WriteStrTags(w, metadata, k) ==
    IF k > Len(StrTags) THEN w
    ELSE WriteStrTags(WriteTagPair(w, StrTags[k], ValueOr(MetadataGet(metadata, StrTags[k]), <<"?">>)),
                      metadata, k + 1)

\* operator< of std::string on the characters the tag names are written in
CharOrder == UpperCaseLetters \o LowerCaseLetters
RECURSIVE StringLess(_, _)
StringLess(a, b) ==
    IF b = <<>> THEN FALSE
    ELSE IF a = <<>> THEN TRUE
    ELSE IF Head(a) # Head(b) THEN IndexOf(CharOrder, Head(a)) < IndexOf(CharOrder, Head(b))
    ELSE StringLess(Tail(a), Tail(b))

\* std::ranges::sort by tag name; tags of equal name keep their order
RECURSIVE SortTags(_)
InsertTag(sorted, tag) ==
    LET k == Cardinality({i \in 1..Len(sorted) : ~StringLess(tag.name, sorted[i].name)})
    IN SubSeq(sorted, 1, k) \o <<tag>> \o SubSeq(sorted, k + 1, Len(sorted))
SortTags(tags) == IF tags = <<>> THEN <<>> ELSE InsertTag(SortTags(Front(tags)), Last(tags))

NonStrTags(metadata) == SelectSeq(metadata, LAMBDA tag : ~IsStrTag(tag.name))

RECURSIVE WriteTagPairs(_, _)
WriteTagPairs(w, tags) ==
    IF tags = <<>> THEN w
    ELSE WriteTagPairs(WriteTagPair(w, Head(tags).name, Head(tags).value), Tail(tags))

\* PGNWriter::write_non_str_tags
WriteNonStrTags(w, metadata) == WriteTagPairs(w, SortTags(NonStrTags(metadata)))

\* PGNWriter::write_metadata
WriteMetadata(w, metadata) == Newline(WriteNonStrTags(WriteStrTags(w, metadata, 1), metadata))

\* PGNWriter::has_overall_game_comment
HasOverallGameComment(g) == g.nodes[1].comment # <<>>

\* PGNWriter::write_overall_game_comment
WriteOverallGameComment(w, g) == Newline(Newline(WriteComment(w, g.nodes[1].comment)))

WriterThrow(w, type) == [w EXCEPT !.error = type]

\* PGNWriter::write_move, the NAGs from the k-th
RECURSIVE WriteNags(_, _, _)
WriteNags(w, nags, k) ==
    IF k > Len(nags) THEN w
    ELSE WriteNags(WriteToken(w, "Nag", <<"$">> \o ToDecimal(nags[k])), nags, k + 1)

\* a mutant of the move number that numbers every move of Black
WriteMoveNumberAlways(w, position) ==
    [WriteToken(w, "MoveNumber",
                ToDecimal(position.fullmove)
                    \o (IF position.stm = W THEN <<".">> ELSE <<".", ".", ".">>))
        EXCEPT !.write_black_move_number = FALSE]

WriteMoveNumber(w, position) ==
    IF position.stm = W
    THEN [WriteToken(w, "MoveNumber", ToDecimal(position.fullmove) \o <<".">>)
             EXCEPT !.write_black_move_number = FALSE]
    ELSE IF w.write_black_move_number
    THEN [WriteToken(w, "MoveNumber", ToDecimal(position.fullmove) \o <<".", ".", ".">>)
             EXCEPT !.write_black_move_number = FALSE]
    ELSE w

CheckStateIndicator(check_state) ==
    IF check_state = "Check" THEN <<"+">>
    ELSE IF check_state = "Checkmate" THEN <<"#">>
    ELSE <<>>

WriteMoveComment(w, node) == IF node.comment # <<>> THEN WriteComment(w, node.comment) ELSE w

WritePremoveComment(w, node) ==
    IF node.premove_comment # <<>> THEN WriteComment(w, node.premove_comment) ELSE w

\* the move token just written is noted as played from the position
PlayedFrom(w, position) == [w EXCEPT !.log[Len(w.log)].from = position]

WriteSanMove(w, node, position, san_move, achieved_position) ==
    IF san_move = NoSanMove THEN WriterThrow(w, "InvalidMove")
    ELSE WriteMoveComment(
             WriteNags(PlayedFrom(WriteToken(WriteMoveNumber(WritePremoveComment(w, node), position),
                                             "Move",
                                             san_move.san_string
                                                 \o CheckStateIndicator(achieved_position.check)),
                                  position),
                       node.nags, 1),
             node)

\* PGNWriter::write_move
WriteMove(w, g, h) ==
    IF w.error # "None" THEN w
    ELSE IF g.nodes[h].parent = 0 THEN WriterThrow(w, "CannotStartRav")
    ELSE WriteSanMove(w, g.nodes[h], CalculatePosition(g.nodes, g.nodes[h].parent),
                      GenerateSanMove(g.nodes[h].move,
                                      AllLegalMoves(CalculatePosition(g.nodes, g.nodes[h].parent))),
                      CalculatePosition(g.nodes, h))

WriteRavStart(w) ==
    IF w.error # "None" THEN w
    ELSE [WriteToken(w, "RavStart", <<"(">>) EXCEPT !.write_black_move_number = TRUE]

WriteRavEnd(w) ==
    IF w.error # "None" THEN w
    ELSE [WriteToken(w, "RavEnd", <<")">>) EXCEPT !.write_black_move_number = TRUE]

\* PGNWriter::write_game_lines and PGNWriter::write_rav; WriteRavs is the loop of
\* write_game_lines over the children after the first
RECURSIVE WriteGameLines(_, _, _), WriteRavs(_, _, _, _), WriteRav(_, _, _)
WriteGameLines(w, g, h) ==
    IF w.error # "None" \/ g.nodes[h].children = <<>> THEN w
    ELSE WriteGameLines(WriteRavs(WriteMove(w, g, g.nodes[h].children[1]), g, h, 2),
                        g, g.nodes[h].children[1])
WriteRavs(w, g, h, child_index) ==
    IF w.error # "None" \/ child_index > Len(g.nodes[h].children) THEN w
    ELSE WriteRavs(WriteRav(w, g, g.nodes[h].children[child_index]), g, h, child_index + 1)
WriteRav(w, g, h) == WriteRavEnd(WriteGameLines(WriteMove(WriteRavStart(w), g, h), g, h))

\* PGNWriter::write_game_termination
WriteGameTermination(w, metadata) ==
    IF w.error # "None" THEN w
    ELSE Newline(Newline(WriteToken(w, "GameTermination",
                                    ValueOr(MetadataGet(metadata, StrTags[7]), <<"?">>))))

WriteOverallComment(w, g) == IF HasOverallGameComment(g) THEN WriteOverallGameComment(w, g) ELSE w

\* PGNWriter::write_game
WriteGame(w, g, metadata) ==
    WriteGameTermination(WriteGameLines(WriteOverallComment(WriteMetadata(w, metadata), g), g, 1),
                         metadata)

(***************************************************************************)
(* State                                                                   *)
(***************************************************************************)
VARIABLES
    game,       \* the Game edited through cursors: [nodes, next_id]
    cursor,     \* the node an edit cursor of the client points at
    call,       \* the last add_node call: [n, tick, parent, move, ret, created]
    prev,       \* the add_node call before it
    sanIn,      \* SAN round trip: [side, moves, move], the arguments
    sanOut,     \* SAN round trip: [stage, san, parsed, matched], the results
    parser,     \* the PGNParser, with its lexer and input stream
    closed,     \* the input stream has ended: no text will follow
    fed,        \* number of text fragments the stream received after its opening
    starved,    \* a call of the parser waits for text the stream has not received
    obs,        \* what an observer of the tokens knows: the open RAVs of the game with
                \* their moves and pending comments, where the parser resynchronised
                \* and where in the text the running read_game call began; for a bare
                \* lexer, the tokens returned so far; for a bare token output, the
                \* last call with the output before it
    writer,     \* the PGNWriter the client writes the game just read with
    reread,     \* the PGNParser the client reads the written text back with; for a
                \* bare lexer, a second lexer on the text with whitespace added
    built,      \* the metadata the edited game was constructed from
    query       \* the last query of the client on the edited game and its answer

treeVars == <<game, cursor, call, prev>>

sanVars == <<sanIn, sanOut>>

parserVars == <<parser, closed, fed, starved, obs, writer, reread>>

gameVars == <<built, query>>

vars == <<treeVars, sanVars, parserVars, gameVars>>

(***************************************************************************)
(* Spec: a client editing one game through cursors and add_node            *)
(***************************************************************************)
TreeMoves == {W_e4, W_Nbd2, B_e5}

NoCall == [n |-> 0, tick |-> FALSE, parent |-> 0, move |-> NoMove, ret |-> 0, created |-> FALSE]

CallRecord(parent, move, r) ==
    [n |-> IF call.n = 0 THEN 1 ELSE 2, tick |-> ~call.tick, parent |-> parent, move |-> move,
     ret |-> r.ret, created |-> r.created]

NoQuery == [op |-> "none", node |-> 0, position |-> NoPosition, color |-> "None"]

TreeStart ==
    /\ game = NewGame(StartingPosition)
    /\ cursor = 1
    /\ call = NoCall
    /\ prev = NoCall
    /\ built = <<>>
    /\ query = NoQuery

SanIdle ==
    /\ sanIn = [side |-> W, moves |-> <<>>, move |-> NoMove, text |-> <<>>]
    /\ sanOut = [stage |-> "idle", san |-> NoSanMove,
                 parsed |-> ParseSan(<<>>, W), matched |-> <<>>]

\* ravs: one entry per RAV opened and not closed in the game being read, with the
\* number of moves read in it (0 or 1 for one or more) and the comments read before
\* its first move; mt_error: the last call ended with an error raised in the
\* movetext; resync: the position of the bracket skip_to_next_game stopped at after
\* such an error, 0 if none; held: the root node object of the Game that read_game
\* returned last and the nodes below it at the return; kept: the nodes below that root
\* when the parser let go of it
NoObs == [ravs |-> <<>>, mt_error |-> FALSE, resync |-> 0, from |-> 1,
          carried |-> [comment |-> <<>>, rav_stack |-> <<>>], nags |-> <<<<>>>>,
          outside |-> <<>>, repeated |-> FALSE, opened |-> <<>>, setup |-> <<>>,
          comments |-> <<>>, held |-> [root |-> 0, nodes |-> <<>>], kept |-> <<>>]

ParserIdle ==
    /\ parser = NewParser(<<>>)
    /\ closed = TRUE
    /\ fed = 0
    /\ starved = FALSE
    /\ obs = NoObs
    /\ writer = NewWriter
    /\ reread = NewParser(<<>>)

TreeInit == TreeStart /\ SanIdle /\ ParserIdle

MayCall == Len(game.nodes) < MaxNodes /\ game.next_id < MaxNextId

\* Game::add_node called by the client
DoAddNode(parent, move) ==
    /\ MayCall
    /\ LET r == AddNode(game, parent, move)
       IN /\ game' = [nodes |-> r.nodes, next_id |-> r.next_id]
          /\ call' = CallRecord(parent, move, r)
          /\ prev' = call
          /\ UNCHANGED cursor

\* BaseCursor::play_move; the client goes on with the returned cursor
PlayMove(move) ==
    /\ MayCall
    /\ LET r == AddNode(game, cursor, move)
       IN /\ game' = [nodes |-> r.nodes, next_id |-> r.next_id]
          /\ call' = CallRecord(cursor, move, r)
          /\ prev' = call
          /\ cursor' = r.ret

\* BaseCursor::add_variation; at the root it returns no cursor and changes nothing
AddVariation(move) ==
    /\ MayCall
    /\ game.nodes[cursor].parent # 0
    /\ LET parent == game.nodes[cursor].parent
           r == AddNode(game, parent, move)
       IN /\ game' = [nodes |-> r.nodes, next_id |-> r.next_id]
          /\ call' = CallRecord(parent, move, r)
          /\ prev' = call
          /\ cursor' = r.ret

\* BaseCursor::parent
GoParent ==
    /\ game.nodes[cursor].parent # 0
    /\ cursor' = game.nodes[cursor].parent
    /\ UNCHANGED <<game, call, prev>>

\* BaseCursor::child
GoChild(i) ==
    /\ i <= Len(game.nodes[cursor].children)
    /\ cursor' = game.nodes[cursor].children[i]
    /\ UNCHANGED <<game, call, prev>>

TreeNext ==
    \/ \E p \in 1..Len(game.nodes), m \in TreeMoves : DoAddNode(p, m) /\ UNCHANGED <<sanVars, parserVars, gameVars>>
    \/ \E m \in TreeMoves : PlayMove(m) /\ UNCHANGED <<sanVars, parserVars, gameVars>>
    \/ \E m \in TreeMoves : AddVariation(m) /\ UNCHANGED <<sanVars, parserVars, gameVars>>
    \/ GoParent /\ UNCHANGED <<sanVars, parserVars, gameVars>>
    \/ \E i \in 1..MaxNodes : GoChild(i) /\ UNCHANGED <<sanVars, parserVars, gameVars>>

Spec == TreeInit /\ [][TreeNext]_vars

(***************************************************************************)
(* SpecGame: a client that builds a game from metadata, edits it through   *)
(* one cursor, caches positions on nodes and asks for positions and for    *)
(* the end of the main line; query holds what the last call returned and   *)
(* is cleared by every other operation                                     *)
(***************************************************************************)
FenBlack == <<"8", "/", "8", "/", "8", "/", "8", "/", "8", "/", "8", "/", "8", "/", "8", " ", "b", " ", "-", " ", "-", " ", "0", " ", "5">>
FenWhite == <<"8", "/", "8", "/", "8", "/", "8", "/", "8", "/", "8", "/", "8", "/", "8", " ", "w", " ", "-", " ", "-", " ", "0", " ", "3">>

\* the metadata a game is built from: none, no FEN tag, one FEN tag, two FEN tags
Builds ==
    {<<>>,
     <<[name |-> <<"R", "e", "s", "u", "l", "t">>, value |-> <<"*">>]>>,
     <<[name |-> FenTag, value |-> FenBlack]>>,
     <<[name |-> <<"R", "e", "s", "u", "l", "t">>, value |-> <<"*">>], [name |-> FenTag, value |-> FenWhite],
       [name |-> FenTag, value |-> FenBlack]>>}

\* a position that is not the one of any node of the game
ForeignPosition == [stm |-> B, fullmove |-> 9, check |-> "None", played |-> <<>>]

GameInit ==
    /\ \E m \in Builds : built = m /\ game = NewGame(InitialPosition(m))
    /\ cursor = 1
    /\ call = NoCall
    /\ prev = NoCall
    /\ query = NoQuery
    /\ SanIdle
    /\ ParserIdle

\* cursor.node()->set_position(position)
SetPosition(position) ==
    /\ game' = [game EXCEPT !.nodes = SetNodePosition(@, cursor, position)]
    /\ query' = NoQuery
    /\ UNCHANGED <<cursor, call, prev, built, sanVars, parserVars>>

\* the client caches the computed position on the node of the cursor
CachePosition == SetPosition(CalculatePosition(game.nodes, cursor))

\* the client sets another position on the node of the cursor
ReplacePosition == SetPosition(ForeignPosition)

\* BaseCursor::position
CallPosition ==
    /\ query' = [op |-> "position", node |-> cursor,
                 position |-> CalculatePosition(game.nodes, cursor), color |-> "None"]
    /\ UNCHANGED <<built, treeVars, sanVars, parserVars>>

\* Game::current_mainline
CallCurrentMainline ==
    /\ query' = [op |-> "current_mainline", node |-> FollowMainline(game.nodes, 1),
                 position |-> NoPosition, color |-> "None"]
    /\ UNCHANGED <<built, treeVars, sanVars, parserVars>>

\* the color of the piece of chesscore::Move{}, the move of the root node: the value
\* the library gives a Piece that is constructed without arguments
DefaultColors == {W, B}

\* BaseCursor::player_color
PlayerColor(node, default) == IF node.parent = 0 THEN default ELSE node.move.piece.color

\* BaseCursor::side_to_move
SideToMove(node, default) == OtherColor(PlayerColor(node, default))

CallSideToMove ==
    /\ \E default \in DefaultColors :
           query' = [op |-> "side_to_move", node |-> cursor, position |-> NoPosition,
                     color |-> SideToMove(game.nodes[cursor], default)]
    /\ UNCHANGED <<built, treeVars, sanVars, parserVars>>

GameMoves == {W_e4, B_e5}

\* BaseCursor::play_move; the client goes on with the returned cursor
Play(move) ==
    /\ MayCall
    /\ game' = [nodes |-> AddNode(game, cursor, move).nodes,
                next_id |-> AddNode(game, cursor, move).next_id]
    /\ cursor' = AddNode(game, cursor, move).ret
    /\ query' = NoQuery
    /\ UNCHANGED <<call, prev, built, sanVars, parserVars>>

\* BaseCursor::add_variation; at the root it returns no cursor and changes nothing
Vary(move) ==
    /\ MayCall
    /\ game.nodes[cursor].parent # 0
    /\ game' = [nodes |-> AddNode(game, game.nodes[cursor].parent, move).nodes,
                next_id |-> AddNode(game, game.nodes[cursor].parent, move).next_id]
    /\ cursor' = AddNode(game, game.nodes[cursor].parent, move).ret
    /\ query' = NoQuery
    /\ UNCHANGED <<call, prev, built, sanVars, parserVars>>

GameNext ==
    \/ \E m \in GameMoves : Play(m)
    \/ \E m \in GameMoves : Vary(m)
    \/ GoParent /\ query' = NoQuery /\ UNCHANGED <<built, sanVars, parserVars>>
    \/ \E i \in 1..MaxNodes : GoChild(i) /\ query' = NoQuery /\ UNCHANGED <<built, sanVars, parserVars>>
    \/ CachePosition
    \/ ReplacePosition
    \/ CallPosition
    \/ CallCurrentMainline
    \/ CallSideToMove

SpecGame == GameInit /\ [][GameNext]_vars

(***************************************************************************)
(* SpecSan: generate_san_move, parse_san and match_san_move applied to a   *)
(* legal-move list.  The lists are the sets of at most MaxMoves moves of   *)
(* one side in a corner of the board that a position can have: one piece   *)
(* per origin square, no move onto a square one of the own pieces stands   *)
(* on, the same capture state for all moves to one square, one king.       *)
(***************************************************************************)
SanFiles == 2..4
SanRanks(side) == IF side = W THEN 6..8 ELSE 1..3
Forward(side) == IF side = W THEN 1 ELSE -1
SanTarget(side) == Sq(3, IF side = W THEN 7 ELSE 2)
SanPromotionTarget(side) == Sq(3, IF side = W THEN 8 ELSE 1)
SanSquares(side) == {Sq(f, r) : f \in SanFiles, r \in SanRanks(side)}
Captures(side) == {NoPiece, Pc("Pawn", OtherColor(side))}

PieceMoves(side) ==
    {Mv(Pc("Knight", side), from, to, cap, NoPiece) :
        from \in SanSquares(side), to \in {SanTarget(side), SanPromotionTarget(side)},
        cap \in Captures(side)}
    \cup {Mv(Pc("Queen", side), from, SanTarget(side), cap, NoPiece) :
        from \in SanSquares(side), cap \in Captures(side)}

PawnMovesTo(side, to, promotions) ==
    {Mv(Pc("Pawn", side), Sq(to.file, to.rank - Forward(side)), to, NoPiece, promo) :
        promo \in promotions}
    \cup {Mv(Pc("Pawn", side), Sq(f, to.rank - Forward(side)), to,
             Pc("Pawn", OtherColor(side)), promo) :
        f \in {to.file - 1, to.file + 1}, promo \in promotions}

PawnMoves(side) ==
    PawnMovesTo(side, SanTarget(side), {NoPiece})
    \cup PawnMovesTo(side, SanPromotionTarget(side),
                     {Pc("Queen", side), Pc("Knight", side)})

KingMoves(side) ==
    LET r == IF side = W THEN 1 ELSE 8
    IN {Mv(Pc("King", side), Sq(5, r), Sq(7, r), NoPiece, NoPiece),
        Mv(Pc("King", side), Sq(5, r), Sq(3, r), NoPiece, NoPiece)}

SanUniverse(side) ==
    {m \in PieceMoves(side) \cup PawnMoves(side) \cup KingMoves(side) : m.from # m.to}

Realizable(L) ==
    \A m1, m2 \in L :
        /\ m1.from = m2.from => m1.piece = m2.piece
        /\ m1.from # m2.to
        /\ m1.to = m2.to => (m1.captured = NoPiece) = (m2.captured = NoPiece)

RECURSIVE SubsetsUpTo(_, _)
SubsetsUpTo(U, k) ==
    IF k = 0 THEN {{}}
    ELSE LET smaller == {L \in SubsetsUpTo(U, k - 1) : Realizable(L)}
         IN smaller \cup {L \cup {m} : L \in smaller, m \in U}

LegalMoveSets(side) == {L \in SubsetsUpTo(SanUniverse(side), MaxMoves) : Realizable(L)}

\* the moves a client asks a SAN for: the moves of the list and, for the shorter lists,
\* moves that are not in the list while the same piece goes to the same target square in
\* one that is
SanCandidates(side, L) ==
    L \cup {x \in SanUniverse(side) :
               Cardinality(L) < MaxMoves /\ \E l \in L : x.to = l.to /\ x.piece = l.piece}

RECURSIVE SeqOf(_)
SeqOf(S) == IF S = {} THEN <<>>
            ELSE LET x == CHOOSE x \in S : TRUE IN <<x>> \o SeqOf(S \ {x})

SanInit ==
    /\ TreeStart
    /\ \E side \in {W, B} : \E L \in LegalMoveSets(side) : \E m \in SanCandidates(side, L) :
           sanIn = [side |-> side, moves |-> SeqOf(L), move |-> m, text |-> <<>>]
    /\ sanOut = [stage |-> "start", san |-> NoSanMove,
                 parsed |-> ParseSan(<<>>, W), matched |-> <<>>]
    /\ ParserIdle

\* generate_san_move(move, moves)
SanGenerate ==
    /\ sanOut.stage = "start"
    /\ sanOut' = [sanOut EXCEPT !.stage = "generated",
                                !.san = GenerateSanMove(sanIn.move, sanIn.moves)]
    /\ UNCHANGED <<sanIn, treeVars, parserVars, gameVars>>

\* parse_san(s.san_string, side)
SanParse ==
    /\ sanOut.stage = "generated"
    /\ sanOut.san # NoSanMove
    /\ sanOut' = [sanOut EXCEPT !.stage = "parsed",
                                !.parsed = ParseSan(sanOut.san.san_string, sanIn.side)]
    /\ UNCHANGED <<sanIn, treeVars, parserVars, gameVars>>

\* match_san_move(parsed, moves)
SanMatch ==
    /\ sanOut.stage = "parsed"
    /\ sanOut.parsed.ok
    /\ sanOut' = [sanOut EXCEPT !.stage = "matched",
                                !.matched = MatchSanMove(sanOut.parsed.move, sanIn.moves)]
    /\ UNCHANGED <<sanIn, treeVars, parserVars, gameVars>>

SanNext == SanGenerate \/ SanParse \/ SanMatch

SpecSan == SanInit /\ [][SanNext]_vars

(***************************************************************************)
(* SpecLexer: next_token called again and again on a text, and on the same *)
(* text with a run of whitespace added between two of its tokens           *)
(***************************************************************************)
LexChars == {"1", "-", "e", ".", " ", "\n", "{", "}"}
WhitespaceRuns == {<<" ">>, <<"\n">>, <<"\t", "\r">>}

\* the text with the run in front of its character p
Respaced(text, p, run) == SubSeq(text, 1, p - 1) \o run \o SubSeq(text, p, Len(text))

\* another token, not the end of the input, is returned from stream s
FollowedByToken(r) == ~r.diverge /\ r.tok.type # "EndOfInput"

\* the stream positions between two adjacent tokens: where a call of next_token left
\* the stream and the call after it returns a token
RECURSIVE TokenBoundaries(_)
TokenBoundariesAfter(r) ==
    IF ~FollowedByToken(r) THEN {}
    ELSE (IF FollowedByToken(NextToken(r.s)) THEN {r.s.pos} ELSE {})
             \cup TokenBoundaries(r.s)
TokenBoundaries(s) == TokenBoundariesAfter(NextToken(s))

Respacings(text) ==
    {text} \cup {Respaced(text, p, run) : p \in TokenBoundaries(NewStream(text)),
                                          run \in WhitespaceRuns}

NoTokens == [tokens |-> <<>>, respaced |-> <<>>]

LexerInit ==
    /\ TreeStart
    /\ SanIdle
    /\ \E text \in TextsUpTo(LexChars, MaxText) :
           /\ parser = NewParser(text)
           /\ \E other \in Respacings(text) : reread = NewParser(other)
    /\ closed = TRUE
    /\ fed = 0
    /\ starved = FALSE
    /\ obs = NoTokens
    /\ writer = NewWriter

\* what the observer notes of a call: the token and the stream before and after it
Noted(before, q) ==
    [type |-> q.token.type, value |-> q.token.value, line |-> q.token.line,
     from |-> before.lexer.pos, line_before |-> before.lexer.line,
     to |-> q.lexer.pos, line_number |-> q.lexer.line]

NoteToken(seq, before, q) == IF q.pc = "diverged" THEN seq ELSE Append(seq, Noted(before, q))

\* PGNLexer::next_token, called on both lexers
LexNextToken ==
    /\ parser.pc # "diverged" /\ reread.pc # "diverged"
    /\ Len(obs.tokens) < MaxCalls
    /\ parser' = PNextToken(parser)
    /\ reread' = PNextToken(reread)
    /\ obs' = [tokens |-> NoteToken(obs.tokens, parser, PNextToken(parser)),
               respaced |-> NoteToken(obs.respaced, reread, PNextToken(reread))]
    /\ UNCHANGED <<closed, fed, starved, writer, treeVars, sanVars, gameVars>>

LexerNext == LexNextToken

SpecLexer == LexerInit /\ [][LexerNext]_vars

(***************************************************************************)
(* SpecMetadata: write_metadata called on a new writer                     *)
(***************************************************************************)
\* a string of n characters
Filler(n) == [i \in 1..n |-> "x"]

TagNames == {StrTags[1], StrTags[2], <<"E", "C", "O">>, <<"A", "n", "n", "o", "t", "a", "t", "o", "r">>}
TagValues == {<<"a">>, Filler(MaxLineLength)}

\* the metadata of up to n tags
RECURSIVE MetadataUpTo(_)
MetadataUpTo(n) ==
    IF n = 0 THEN {<<>>}
    ELSE MetadataUpTo(n - 1)
             \cup {MetadataAdd(m, name, value) :
                       m \in MetadataUpTo(n - 1), name \in TagNames, value \in TagValues}

MetadataInit ==
    /\ game = NewGame(StartingPosition)
    /\ cursor = 1
    /\ call = NoCall
    /\ prev = NoCall
    /\ built \in MetadataUpTo(MaxTags)
    /\ query = NoQuery
    /\ SanIdle
    /\ ParserIdle

\* PGNWriter::write_metadata
CallWriteMetadata ==
    /\ writer = NewWriter
    /\ writer' = WriteMetadata(writer, built)
    /\ UNCHANGED <<parser, closed, fed, starved, obs, reread, treeVars, sanVars, gameVars>>

MetadataNext == CallWriteMetadata

SpecMetadata == MetadataInit /\ [][MetadataNext]_vars

(***************************************************************************)
(* SpecWriter: tokens and comments written to a PGNTokenOutput             *)
(***************************************************************************)
OutTokenTypes == {"Move", "RavStart", "RavEnd"}
OutTokens ==
    {<<"x">>, Filler(38), Filler(40), Filler(MaxLineLength), Filler(MaxLineLength + 1),
     <<"a", "\n", "b">>}
Comments == TextsUpTo({"a", " "}, MaxComment) \ {<<>>}

\* oversize: a token longer than a line was written; multiline: a token with a newline
NoWrite ==
    [op |-> "none", arg |-> <<>>, type |-> "None", before |-> NewWriter,
     oversize |-> FALSE, multiline |-> FALSE, calls |-> 0]

WriterInit ==
    /\ TreeStart
    /\ SanIdle
    /\ parser = NewParser(<<>>)
    /\ closed = TRUE
    /\ fed = 0
    /\ starved = FALSE
    /\ obs = NoWrite
    /\ writer = NewWriter
    /\ reread = NewParser(<<>>)

WriterCalled(op, type, arg, w) ==
    /\ obs.calls < MaxWrites
    /\ writer' = w
    /\ obs' = [op |-> op, arg |-> arg, type |-> type, before |-> writer,
               oversize |-> obs.oversize \/ (op = "write" /\ Len(arg) > MaxLineLength),
               multiline |-> obs.multiline \/ "\n" \in Range(arg),
               calls |-> obs.calls + 1]
    /\ UNCHANGED <<parser, closed, fed, starved, reread, treeVars, sanVars, gameVars>>

\* PGNTokenOutput::write
CallWrite(type, token) == WriterCalled("write", type, token, WriteToken(writer, type, token))

\* PGNTokenOutput::newline
CallNewline == WriterCalled("newline", "None", <<>>, Newline(writer))

\* PGNTokenOutput::write_comment
CallWriteComment(comment) ==
    WriterCalled("write_comment", "Comment", comment, WriteComment(writer, comment))

WriterNext ==
    \/ \E type \in OutTokenTypes : \E token \in OutTokens : CallWrite(type, token)
    \/ CallNewline
    \/ \E comment \in Comments : CallWriteComment(comment)

SpecWriter == WriterInit /\ [][WriterNext]_vars

(***************************************************************************)
(* SpecWriteGame: write_game called on a game that a client built with     *)
(* play_move and add_variation                                             *)
(***************************************************************************)
WrittenMoves == {W_e4, W_Qg4, B_e5, B_Nf6}

Added(g, parent, move) ==
    [nodes |-> AddNode(g, parent, move).nodes, next_id |-> AddNode(g, parent, move).next_id]

\* the games that up to n calls of add_node make of the game g
RECURSIVE GamesUpTo(_, _)
GamesUpTo(g, n) ==
    IF n = 0 THEN {g}
    ELSE GamesUpTo(g, n - 1)
             \cup UNION {{Added(e, parent, move) : parent \in 1..Len(e.nodes), move \in WrittenMoves} :
                            e \in GamesUpTo(g, n - 1)}

WriteGameInit ==
    /\ built \in {<<>>, <<[name |-> FenTag, value |-> FenBlack]>>}
    /\ game \in GamesUpTo(NewGame(InitialPosition(built)), MaxNodes - 1)
    /\ cursor = 1
    /\ call = NoCall
    /\ prev = NoCall
    /\ query = NoQuery
    /\ SanIdle
    /\ ParserIdle

\* PGNWriter::write_game on a new writer
WriteBuiltGame ==
    /\ writer = NewWriter
    /\ writer' = WriteGame(NewWriter, game, built)
    /\ UNCHANGED <<parser, closed, fed, starved, obs, reread, treeVars, sanVars, gameVars>>

WriteGameNext == WriteBuiltGame

SpecWriteGame == WriteGameInit /\ [][WriteGameNext]_vars

(***************************************************************************)
(* SpecCastling: parse_san applied to strings that start with a castling   *)
(* prefix                                                                  *)
(***************************************************************************)
TailChars == {"+", "#", "!", "?", "-", "O", "x", "e", "4"}

CastlingInit ==
    /\ TreeStart
    /\ \E side \in {W, B} : \E prefix \in {short_castling, long_castling} :
       \E tail \in TextsUpTo(TailChars, MaxTail) :
           sanIn = [side |-> side, moves |-> <<>>, move |-> NoMove, text |-> prefix \o tail]
    /\ sanOut = [stage |-> "start", san |-> NoSanMove,
                 parsed |-> ParseSan(<<>>, W), matched |-> <<>>]
    /\ ParserIdle

\* parse_san(text, side)
CastlingParse ==
    /\ sanOut.stage = "start"
    /\ sanOut' = [sanOut EXCEPT !.stage = "parsed",
                                !.parsed = ParseSan(sanIn.text, sanIn.side)]
    /\ UNCHANGED <<sanIn, treeVars, parserVars, gameVars>>

CastlingNext == CastlingParse

SpecCastling == CastlingInit /\ [][CastlingNext]_vars

(***************************************************************************)
(* SpecParser: a client reads games from a stream with read_game and       *)
(* resynchronises with skip_to_next_game.  The stream starts with one of   *)
(* the Openings and receives up to MaxWords fragments of the Vocabulary,   *)
(* each followed by a space, whenever the parser needs more text; then it  *)
(* ends.  A call of the lexer that would block on a stream that has not    *)
(* ended waits for the next fragment.  read_game is one step up to the     *)
(* loop of read_movetext and one step for every iteration of the loop.     *)
(***************************************************************************)
TagResult == <<"[", "R", "e", "s", "u", "l", "t", " ", "\"", "*", "\"", "]">>
TagChess960 ==
    <<"[", "V", "a", "r", "i", "a", "n", "t", " ", "\"", "C", "h", "e", "s", "s", "9", "6", "0", "\"", "]">>
Openings ==
    {TagResult \o <<" ">>,
     TagResult \o <<" ">> \o <<"1", ".", " ", "e", "4", " ", "(", " ">>,
     TagResult \o <<" ">> \o <<"1", ".", " ", "e", "4", " ", "(", " ", "e", "4", " ">>,
     TagResult \o <<" ">> \o <<"{", "a", "}", " ">>,
     TagChess960 \o <<" ">>,
     TagChess960 \o <<" ">> \o <<"{", "a", "}", " ">> \o TagResult \o <<" ">>}
Vocabulary ==
    {TagResult, TagChess960, <<"{", "a", "}">>,
     <<"{", "b", " ", "c", "}">>,
     <<"1", ".">>,
     <<"e", "4">>,
     <<"e", "4", "?">>,
     <<"e", "5">>,
     <<"N", "d", "2">>,
     <<"d", "6">>,
     <<"d", "5">>,
     <<"$", "1">>,
     <<"(">>,
     <<")">>,
     <<"*">>,
     <<",">>,
     <<".">>}

ParserInit ==
    /\ TreeStart
    /\ SanIdle
    /\ \E text \in Openings : parser = NewParser(text)
    /\ closed = FALSE
    /\ fed = 0
    /\ starved = FALSE
    /\ obs = NoObs
    /\ writer = NewWriter
    /\ reread = NewParser(<<>>)

\* the stream receives its next fragment
Feed(w) ==
    /\ starved /\ ~closed /\ fed < MaxWords
    /\ parser' = [parser EXCEPT !.lexer.text = @ \o w \o <<" ">>]
    /\ fed' = fed + 1
    /\ starved' = FALSE
    /\ UNCHANGED <<closed, obs, writer, reread, treeVars, sanVars, gameVars>>

\* the stream ends
CloseInput ==
    /\ starved /\ ~closed
    /\ closed' = TRUE
    /\ starved' = FALSE
    /\ UNCHANGED <<parser, fed, obs, writer, reread, treeVars, sanVars, gameVars>>

\* the parser takes the step to q, or waits when the step reads past the text received
FireWith(q, o) ==
    /\ ~starved
    /\ IF closed \/ ~q.lexer.failed
       THEN parser' = q /\ obs' = o /\ starved' = FALSE
       ELSE parser' = parser /\ obs' = obs /\ starved' = TRUE
    /\ UNCHANGED <<closed, fed, treeVars, sanVars, gameVars>>

Fire(q, o) == FireWith(q, o) /\ UNCHANGED <<writer, reread>>

Raised(q) == q.result = "error" \/ q.result = "exception"

\* the observer after a step of the movetext loop that leads to q
Observed(q, o) == IF Raised(q) THEN [obs EXCEPT !.mt_error = TRUE] ELSE o

\* the client reads on; the writer and the parser used on the game before are gone; the
\* observer notes in setup the comment of the root when the call leaves the head
FireReadGame(q) ==
    /\ FireWith(q, [ravs |-> <<>>, mt_error |-> FALSE,
                    resync |-> IF parser.result = "skipped" THEN obs.resync ELSE 0,
                    from |-> parser.lexer.pos,
                    carried |-> [comment |-> parser.overall_game_comment,
                                 rav_stack |-> parser.rav_stack],
                    nags |-> <<<<>>>>,
                    outside |-> <<>>, repeated |-> FALSE, opened |-> <<>>,
                    setup |-> q.game.nodes[1].comment, comments |-> <<>>,
                    held |-> obs.held,
                    kept |-> IF obs.held.root = parser.game_root
                                /\ q.game_root # parser.game_root
                             THEN parser.game.nodes ELSE obs.kept])
    /\ writer' = NewWriter
    /\ reread' = NewParser(<<>>)

CallReadGame == parser.pc = "idle" /\ FireReadGame(ReadGameHead(parser))

\* the client resynchronises after an error, once
Skipped(q) == IF q.pc = "diverged" THEN q ELSE [q EXCEPT !.result = "skipped"]
FireSkip(q) ==
    Fire(q, [obs EXCEPT !.resync = IF obs.mt_error /\ q.token.type = "OpenBracket"
                                   THEN q.lexer.pos ELSE 0])
CallSkipToNextGame ==
    /\ parser.pc = "idle" /\ parser.result = "error"
    /\ FireSkip(Skipped(SkipToNextGame(parser)))

InMovetext(type) == parser.pc = "movetext" /\ parser.token.type = type

FireStep(q) == Fire(q, Observed(q, obs))

\* the NAG a move token announces by its last characters, as a list
EndsWith(value, suffix) ==
    Len(value) >= Len(suffix) /\ SubSeq(value, Len(value) - Len(suffix) + 1, Len(value)) = suffix
SuffixNagOf(value) ==
    IF EndsWith(value, <<"!", "!">>) THEN <<3>>
    ELSE IF EndsWith(value, <<"?", "?">>) THEN <<4>>
    ELSE IF EndsWith(value, <<"!", "?">>) THEN <<5>>
    ELSE IF EndsWith(value, <<"?", "!">>) THEN <<6>>
    ELSE IF EndsWith(value, <<"!">>) THEN <<1>>
    ELSE IF EndsWith(value, <<"?">>) THEN <<2>>
    ELSE <<>>

\* the observer's NAG lists: a node created by a move token starts with the NAG of the
\* token's suffix
NagsAfterMove(q) ==
    IF Len(q.game.nodes) > Len(parser.game.nodes)
    THEN Append(obs.nags, SuffixNagOf(parser.token.value))
    ELSE obs.nags

\* the observer's list of the moves outside all parentheses: the move that a token
\* read with no RAV open resolved to
OutsideAfterMove(q) ==
    IF obs.ravs = <<>>
    THEN Append(obs.outside, q.game.nodes[CurrentGameLine(q)].move)
    ELSE obs.outside

\* the observer's list of the RAVs of the game that have a move, each by the node that
\* was current at its (
OpenedAfterMove ==
    IF obs.ravs # <<>> /\ Top(obs.ravs).moves = 0
    THEN Append(obs.opened, Top(obs.ravs).at)
    ELSE obs.opened

FireMove(q) ==
    Fire(q, Observed(q, [obs EXCEPT !.ravs = IF @ = <<>> THEN @
                                               ELSE [@ EXCEPT ![Len(@)].moves = 1],
                                    !.opened = OpenedAfterMove,
                                    !.nags = NagsAfterMove(q),
                                    !.outside = OutsideAfterMove(q),
                                    !.repeated = @ \/ Len(q.game.nodes) = Len(parser.game.nodes)]))

\* the observer's NAG lists: a Nag token adds its integer to the list of the current node
FireNag(q) ==
    Fire(q, Observed(q, [obs EXCEPT !.nags[CurrentGameLine(parser)] =
                                        Append(@, DecimalValue(parser.token.value))]))

\* the observer's list of the Comment tokens read in the movetext of the game
FireComment(q) ==
    Fire(q, Observed(q, IF obs.ravs # <<>> /\ Top(obs.ravs).moves = 0
                        THEN [obs EXCEPT !.ravs[Len(obs.ravs)].pending =
                                             Append(@, parser.token.value),
                                         !.comments = Append(@, parser.token.value)]
                        ELSE [obs EXCEPT !.comments = Append(@, parser.token.value)]))

\* the observer's open RAVs: at is the node that is current when ( is read
FireOpenParen(q) ==
    Fire(q, Observed(q, [obs EXCEPT !.ravs = Append(@, [moves |-> 0, pending |-> <<>>,
                                                        at |-> CurrentGameLine(parser)])]))

FireCloseParen(q) ==
    Fire(q, Observed(q, [obs EXCEPT !.ravs = IF @ = <<>> THEN @ ELSE Pop(@)]))

\* read_game returns a copy of m_game, which shares the root node with m_game
FireReturn(q) ==
    Fire(q, Observed(q, [obs EXCEPT !.held = [root |-> q.game_root, nodes |-> q.game.nodes],
                                    !.kept = <<>>]))

StepGameResult == InMovetext("GameResult") /\ FireReturn(ReturnGame(parser))
StepNumber == InMovetext("Number") /\ FireStep(ReadMoveNumberIndication(parser))
StepDot == InMovetext("Dot") /\ FireStep(UnexpectedDot(parser))
StepSymbol == InMovetext("Symbol") /\ FireMove(ReadMove(parser))
StepNag == InMovetext("NAG") /\ FireNag(AnnotateMove(parser))
StepComment == InMovetext("Comment") /\ FireComment(ProcessMoveComment(parser))
StepOpenParen == InMovetext("OpenParen") /\ FireOpenParen(StartRav(parser))
StepCloseParen == InMovetext("CloseParen") /\ FireCloseParen(FinishRav(parser))
StepInvalid == InMovetext("Invalid") /\ FireStep(InvalidToken(parser))
StepUnexpected ==
    /\ parser.pc = "movetext"
    /\ parser.token.type \in {"OpenBracket", "CloseBracket", "String", "EndOfInput"}
    /\ FireStep(Throw(parser, "UnexpectedToken"))

\* the client writes the game read_game returned to a fresh stream
CallWriteGame ==
    /\ parser.pc = "idle" /\ parser.result = "game"
    /\ writer = NewWriter
    /\ writer' = WriteGame(NewWriter, parser.game, parser.game_metadata)
    /\ UNCHANGED <<parser, closed, fed, starved, obs, reread, treeVars, sanVars, gameVars>>

\* the client reads the written text with a fresh parser
ReadBack ==
    /\ writer.out # <<>> /\ writer.error = "None"
    /\ reread = NewParser(<<>>)
    /\ reread' = ReadGame(NewParser(writer.out))
    /\ UNCHANGED <<parser, closed, fed, starved, obs, writer, treeVars, sanVars, gameVars>>

ParserNext ==
    \/ \E w \in Vocabulary : Feed(w)
    \/ CloseInput
    \/ CallReadGame
    \/ CallSkipToNextGame
    \/ StepGameResult
    \/ StepNumber
    \/ StepDot
    \/ StepSymbol
    \/ StepNag
    \/ StepComment
    \/ StepOpenParen
    \/ StepCloseParen
    \/ StepInvalid
    \/ StepUnexpected
    \/ CallWriteGame
    \/ ReadBack

SpecParser == ParserInit /\ [][ParserNext]_vars

(***************************************************************************)
(* Claims about the move tree, checked under Spec                          *)
(***************************************************************************)
\* every add_node call flips call.tick
NewCall == call'.tick # call.tick

ChildMoves(nodes, h) == [i \in 1..Len(nodes[h].children) |-> nodes[nodes[h].children[i]].move]

\* C2: two successive add_node(p, m) calls return the same node, and the second
\* call leaves the child list of p as it was (same length, same content).
C2_DedupSameNode ==
    [][(NewCall /\ call.n >= 1 /\ call'.parent = call.parent /\ call'.move = call.move)
        => /\ call'.ret = call.ret
           /\ game'.nodes[call.parent].children = game.nodes[call.parent].children
           /\ Len(game'.nodes) = Len(game.nodes)]_vars

C2_Witness ==
    /\ call.n = 2 /\ prev.n >= 1
    /\ call.parent = prev.parent /\ call.move = prev.move
    /\ call.ret = prev.ret

\* C3: in every reachable state the children of every node carry pairwise
\* different moves.
C3_DistinctChildMoves ==
    \A h \in 1..Len(game.nodes) :
        \A i, j \in 1..Len(game.nodes[h].children) :
            i # j => ChildMoves(game.nodes, h)[i] # ChildMoves(game.nodes, h)[j]

C3_Witness ==
    /\ call.n = 2 /\ ~call.created
    /\ \E h \in 1..Len(game.nodes) : Len(game.nodes[h].children) >= 2

\* C4 as claimed: the id of the node returned by each add_node call is strictly
\* greater than the id of the node returned by the previous call.
C4_ReturnedIdsStrictlyIncrease ==
    [][(NewCall /\ call.n >= 1)
        => game'.nodes[call'.ret].id > game.nodes[call.ret].id]_vars

\* C4 as amended: every node that add_node newly creates has an id strictly
\* greater than the id of every node already in the tree, and a call that finds
\* an existing child with the move returns that child with its id unchanged.
C4_NewIdsStrictlyIncrease ==
    [][NewCall
        => IF Len(game'.nodes) > Len(game.nodes)
           THEN /\ call'.ret = Len(game'.nodes)
                /\ \A h \in 1..Len(game.nodes) :
                      game'.nodes[call'.ret].id > game.nodes[h].id
           ELSE /\ call'.ret \in 1..Len(game.nodes)
                /\ game'.nodes[call'.ret].id = game.nodes[call'.ret].id]_vars

C4_Witness ==
    /\ call.n = 2 /\ call.created /\ ~prev.created
    /\ game.nodes[call.ret].id > game.nodes[prev.ret].id + 1

\* C5: all nodes of the tree have pairwise different ids; the root has id 1 and
\* every other node an id of at least 2.
C5_UniqueIds ==
    /\ game.nodes[1].id = RootId
    /\ \A h \in 2..Len(game.nodes) : game.nodes[h].id >= FirstFreeId
    /\ \A h1, h2 \in 1..Len(game.nodes) :
          h1 # h2 => game.nodes[h1].id # game.nodes[h2].id

C5_Witness ==
    /\ Len(game.nodes) >= 3
    /\ \E h \in 1..Len(game.nodes) : game.nodes[h].id > Len(game.nodes)

(***************************************************************************)
(* Claims about SAN, checked under SpecSan                                 *)
(***************************************************************************)
\* C6: for a non-castling move m of the legal-move list L, when generate_san_move
\* returns a SAN move s, parse_san(s.san_string, side) succeeds and
\* match_san_move(parsed, L) is the one-element list [m].
C6_SanRoundTrip ==
    (sanIn.move \in Range(sanIn.moves) /\ ~IsCastling(sanIn.move))
        => /\ sanOut.stage = "parsed" => sanOut.parsed.ok
           /\ sanOut.stage = "matched" => sanOut.matched = <<sanIn.move>>

C6_Witness ==
    /\ sanOut.stage = "matched"
    /\ ~IsCastling(sanIn.move)
    /\ sanOut.san.disambiguation_file # 0 /\ sanOut.san.disambiguation_rank # 0
    /\ sanOut.matched = <<sanIn.move>>

(***************************************************************************)
(* Claims about the PGN parser, checked under SpecParser                   *)
(***************************************************************************)
\* a step of the movetext loop on a token of the given type was taken
Handled(type) ==
    /\ parser.pc = "movetext" /\ parser.token.type = type
    /\ ~starved /\ ~starved' /\ parser' # parser

\* the step played move m from the current node and recorded exactly the warnings warns
Played(m, warns) ==
    /\ ~Raised(parser')
    /\ parser'.game.nodes[CurrentGameLine(parser')].move = m
    /\ parser'.game.nodes[CurrentGameLine(parser')].parent = CurrentGameLine(parser)
    /\ Len(parser'.game.nodes) <= Len(parser.game.nodes) + 1
    /\ parser'.warnings = parser.warnings \o warns

\* the step raised the error and added no node
Rejected(error) ==
    /\ parser'.result = "error" /\ parser'.error = error /\ parser'.pc = "idle"
    /\ parser'.game = parser.game
    /\ parser'.warnings = parser.warnings

OneWarning(type) == <<Warning(type, parser.token.line, parser.token.value)>>

ResolvedInOrder(san_move, strict, wildcard, captures) ==
    IF Len(strict) = 1 THEN Played(strict[1], <<>>)
    ELSE IF Len(strict) > 1 THEN Rejected("AmbiguousMove")
    ELSE IF Len(wildcard) = 1 THEN Played(wildcard[1], OneWarning("MoveMissingPieceType"))
    ELSE IF Len(captures) = 1 THEN Played(captures[1], OneWarning("MoveMissingCapture"))
    ELSE Rejected("IllegalMove")

ResolvedAgainst(san_move, legal_moves) ==
    ResolvedInOrder(san_move, MatchMove(san_move, legal_moves),
                    MatchSanMoveWildcardPieceType(san_move, legal_moves),
                    MatchMove([san_move EXCEPT !.capturing = TRUE], legal_moves))

MoveTokenResolved(san_exp, position) ==
    san_exp.ok => ResolvedAgainst(san_exp.move, AllLegalMoves(position))

\* C7: a move token whose SAN parses is resolved against the legal moves L of the
\* current node in a fixed order: one strict match is played without a warning; several
\* strict matches raise AmbiguousMove; no strict match and one match ignoring the piece
\* type is played with one MoveMissingPieceType warning; otherwise one match with
\* capturing set is played with one MoveMissingCapture warning; otherwise IllegalMove
\* is raised and no node is added.
C7_ResolutionOrder ==
    [][Handled("Symbol") =>
           MoveTokenResolved(ParseSan(parser.token.value, CurrentPosition(parser).stm),
                             CurrentPosition(parser))]_vars

\* the token d6 matches no pawn move, the queen move Qd6 when the piece type is ignored
\* and the capture exd6 when capturing is set: Qd6 was played with its warning
C7_Witness ==
    /\ parser.pc = "movetext"
    /\ parser.game.nodes[CurrentGameLine(parser)].move = W_Qd6
    /\ \E i \in 1..Len(parser.warnings) : parser.warnings[i].type = "MoveMissingPieceType"

\* C10: an OpenParen read while the current node has no parent raises CannotStartRav,
\* a CloseParen read while no RAV is open raises NoPenRav, and in both cases read_game
\* returns no game.
C10_MisplacedParentheses ==
    [][/\ (Handled("OpenParen") /\ parser.game.nodes[CurrentGameLine(parser)].parent = 0)
            => Rejected("CannotStartRav")
       /\ (Handled("CloseParen") /\ obs.ravs = <<>>)
            => Rejected("NoPenRav")]_vars

\* both errors were raised: a CloseParen with no RAV open in a game read after a game
\* that ended inside a RAV
C10_Witness ==
    /\ parser.result = "error" /\ parser.error = "NoPenRav"
    /\ parser.rav_stack # <<>>
    /\ obs.ravs = <<>>

\* the node the step made current
NewCurrentNode == parser'.game.nodes[CurrentGameLine(parser')]

Contains(text, part) ==
    \E i \in 1..(Len(text) - Len(part) + 1) : SubSeq(text, i, i + Len(part) - 1) = part

InRavWithoutMove == obs.ravs # <<>> /\ Top(obs.ravs).moves = 0

\* C9: a Comment token read inside a RAV that has not yet seen a move becomes the
\* premove_comment of the first node created in that RAV and is added to no node's
\* comment; every other Comment token is appended to the comment of the node that is
\* current when the token is read.
C9_CommentPlacement ==
    [][/\ (Handled("Comment") /\ ~Raised(parser') /\ InRavWithoutMove)
            => \A h \in 1..Len(parser.game.nodes) :
                   parser'.game.nodes[h].comment = parser.game.nodes[h].comment
       /\ (Handled("Comment") /\ ~Raised(parser') /\ ~InRavWithoutMove)
            => parser'.game.nodes[CurrentGameLine(parser)].comment
                   = parser.game.nodes[CurrentGameLine(parser)].comment \o parser.token.value
       /\ (Handled("Symbol") /\ ~Raised(parser') /\ InRavWithoutMove)
            => \A i \in 1..Len(Top(obs.ravs).pending) :
                   Contains(NewCurrentNode.premove_comment, Top(obs.ravs).pending[i])]_vars

\* the text of the game the parser resynchronised at, up to the last character read
ResyncText == SubSeq(parser.lexer.text, obs.resync, parser.lexer.pos - 1)

SameGame(p, q) ==
    /\ p.result = q.result
    /\ p.game_metadata = q.game_metadata
    /\ p.game = q.game
    /\ p.warnings = q.warnings

\* C8: when read_game raised an error in the movetext of a game and skip_to_next_game
\* stopped at the next game, the following read_game returns that game exactly as a
\* fresh parser returns it from the text of that game alone: same metadata, tree,
\* comments, pre-move comments, NAGs and warnings.
C8_RecoveryEqualsFresh ==
    (parser.pc = "idle" /\ parser.result = "game" /\ obs.resync # 0)
        => SameGame(parser, ReadGame(NewParser(ResyncText)))

\* the tree below node h: moves, comments, NAGs and the order of the variations
RECURSIVE TreeOf(_, _)
TreeOf(g, h) ==
    [move |-> g.nodes[h].move,
     comment |-> g.nodes[h].comment,
     premove_comment |-> g.nodes[h].premove_comment,
     nags |-> g.nodes[h].nags,
     children |-> [i \in 1..Len(g.nodes[h].children) |-> TreeOf(g, g.nodes[h].children[i])]]

ReadBackDone == reread # NewParser(<<>>)

\* C1: when read_game has returned a game, write_game has written it and a parser has
\* read the written text, that parser returns a game with the same tree: the same moves
\* and variation structure, the same comment and pre-move comment and the same NAGs
\* in the same order on every node.
C1_WriteParseRoundTrip ==
    ReadBackDone => (reread.result = "game" /\ TreeOf(reread.game, 1) = TreeOf(parser.game, 1))

\* the Variant tag of the metadata lower-cases to chess960
IsChess960(metadata) == LowerCase(ValueOr(MetadataGet(metadata, VariantTag), <<>>)) = Chess960

\* a fresh parser that has read the tag section and the overall comment at position k
HeadAt(text, k) ==
    ReadMetadata(PNextToken([NewParser(SubSeq(text, k, Len(text))) EXCEPT !.pc = "head"]))

\* the position of the first game at or after position k that is not chess960, each
\* game read by a parser of its own; 0 when the text has none
RECURSIVE FirstOtherGame(_, _)
NextGameAfter(text, k, skipped) ==
    IF skipped.pc = "head" /\ skipped.token.type = "OpenBracket"
    THEN FirstOtherGame(text, k - 1 + skipped.lexer.pos)
    ELSE 0
FirstOtherGameFrom(text, k, head) ==
    IF head.pc # "head" \/ head.metadata = <<>> THEN 0
    ELSE IF IsChess960(head.metadata) THEN NextGameAfter(text, k, SkipToNextGame(head))
    ELSE k
FirstOtherGame(text, k) == FirstOtherGameFrom(text, k, HeadAt(text, k))

\* the read_game call that returned began at a chess960 game at the start of the stream
SkippedChess960 ==
    /\ parser.pc = "idle" /\ parser.result = "game"
    /\ obs.from = 1
    /\ IsChess960(HeadAt(parser.lexer.text, 1).metadata)

GameAt(text, k, end) == ReadGame(NewParser(SubSeq(text, k, end)))

\* read_game returns no game whose Variant tag lower-cases to chess960
NeverChess960 == parser.result = "game" => ~IsChess960(parser.game_metadata)

\* after chess960 games were skipped, the returned game has the tags of the first game
\* of the stream that is not chess960
ReturnsTagsOfFirstOtherGame ==
    SkippedChess960 =>
        /\ FirstOtherGame(parser.lexer.text, 1) # 0
        /\ parser.game_metadata
               = HeadAt(parser.lexer.text, FirstOtherGame(parser.lexer.text, 1)).metadata

\* C11: read_game returns no chess960 game; when it skipped chess960 games, the game it
\* returns is the first game of the stream that is not chess960, as a parser reading
\* that game alone returns it.
C11_SkipsChess960 ==
    /\ NeverChess960
    /\ SkippedChess960 =>
           /\ FirstOtherGame(parser.lexer.text, 1) # 0
           /\ SameGame(parser, GameAt(parser.lexer.text, FirstOtherGame(parser.lexer.text, 1),
                                      parser.lexer.pos - 1))

WarningTypes(p) == [i \in 1..Len(p.warnings) |-> p.warnings[i].type]

\* the warning a move token deserves: none when a strict match exists or nothing matches
MoveDeviationOf(strict, wildcard, captures) ==
    IF Len(strict) >= 1 THEN <<>>
    ELSE IF Len(wildcard) = 1 THEN <<"MoveMissingPieceType">>
    ELSE IF Len(captures) = 1 THEN <<"MoveMissingCapture">>
    ELSE <<>>

MoveDeviationAgainst(san_exp, legal_moves) ==
    IF ~san_exp.ok THEN <<>>
    ELSE MoveDeviationOf(MatchMove(san_exp.move, legal_moves),
                         MatchSanMoveWildcardPieceType(san_exp.move, legal_moves),
                         MatchMove([san_exp.move EXCEPT !.capturing = TRUE], legal_moves))

\* the recoverable deviation the current token of the movetext is; stray_chars are the
\* characters that count as stray
Deviation(stray_chars) ==
    IF parser.token.type \in {"Invalid", "Dot"}
    THEN IF parser.token.value \in stray_chars \/ (parser.token.type = "Dot" /\ <<".">> \in stray_chars)
         THEN <<"UnexpectedChar">> ELSE <<>>
    ELSE IF parser.token.type = "Symbol"
    THEN MoveDeviationAgainst(ParseSan(parser.token.value, CurrentPosition(parser).stm),
                              AllLegalMoves(CurrentPosition(parser)))
    ELSE <<>>

MovetextStepTaken == parser.pc = "movetext" /\ ~starved /\ ~starved' /\ parser' # parser

\* every step of the movetext loop adds exactly the deviation of its token and goes on
\* when there is one; a read_game call that reaches the movetext starts with no warning
WarningsFollow(stray_chars) ==
    /\ (MovetextStepTaken /\ Deviation(stray_chars) # <<>>) => ~Raised(parser')
    /\ (MovetextStepTaken /\ ~Raised(parser'))
           => WarningTypes(parser') = WarningTypes(parser) \o Deviation(stray_chars)
    /\ (parser.pc = "idle" /\ parser'.pc = "movetext") => parser'.warnings = <<>>

\* C12 as stated: the warnings of a game are, in input order, exactly the stray ',' and
\* '}' characters, the moves matched by ignoring the piece type and the moves matched by
\* adding a capture met while reading that game.
C12_WarningsAsListed == [][WarningsFollow({<<",">>, <<"}">>})]_vars

\* C12 amended: a stray '.' in the movetext is recorded as an UnexpectedChar warning
\* too; with it the warnings of a game are exactly the deviations met while reading
\* that game, in input order, none aborts parsing and none is kept from an earlier game.
C12_WarningsPerGame == [][WarningsFollow({<<",">>, <<"}">>, <<".">>})]_vars

\* a game was returned after a stray character and a move matched without its piece type
C12_Witness ==
    /\ parser.pc = "idle" /\ parser.result = "game"
    /\ WarningTypes(parser) = <<"UnexpectedChar", "MoveMissingPieceType">>

(***************************************************************************)
(* C13: the position of a node                                             *)
(***************************************************************************)
\* the k-th ancestor of node h, itself for k = 0, 0 above the root
RECURSIVE AncestorAt(_, _, _)
AncestorAt(nodes, h, k) ==
    IF k = 0 \/ h = 0 THEN h ELSE AncestorAt(nodes, nodes[h].parent, k - 1)

HasCachedAncestor(nodes, h, k) ==
    AncestorAt(nodes, h, k) # 0 /\ nodes[AncestorAt(nodes, h, k)].position # NoPosition

\* how far above h its nearest node with a cached position is
NearestCached(nodes, h) ==
    CHOOSE k \in 0..MaxNodes :
        /\ HasCachedAncestor(nodes, h, k)
        /\ \A j \in 0..(k - 1) : ~HasCachedAncestor(nodes, h, j)

\* the moves on the way from the k-th ancestor of h down to h
MovesBelow(nodes, h, k) == [i \in 1..k |-> nodes[AncestorAt(nodes, h, k - i)].move]

\* a position after the given moves were made in it
PositionAfter(pos, moves) ==
    [stm |-> IF Len(moves) % 2 = 0 THEN pos.stm ELSE OtherColor(pos.stm),
     fullmove |-> pos.fullmove + ((Len(moves) + (IF pos.stm = B THEN 1 ELSE 0)) \div 2),
     check |-> IF moves = <<>> THEN pos.check
               ELSE IF Last(moves) \in CheckingMoves THEN "Check" ELSE "None",
     played |-> pos.played \o moves]

PositionAnswered == query' # query /\ query'.op = "position"

\* C13: position() succeeds for every node reachable from the root and returns the
\* position cached on the nearest node at or above it, advanced by the moves below
\* that node.
C13_PositionFromNearestCache ==
    [][PositionAnswered =>
          /\ \E k \in 0..MaxNodes : HasCachedAncestor(game.nodes, query'.node, k)
          /\ query'.position # NoPosition
          /\ query'.position =
                 PositionAfter(game.nodes[AncestorAt(game.nodes, query'.node,
                                                     NearestCached(game.nodes, query'.node))].position,
                               MovesBelow(game.nodes, query'.node,
                                          NearestCached(game.nodes, query'.node)))]_vars

\* a position was asked of a node without a cached position whose parent is not the root
\* and caches a position that no replay from the root gives
C13_Witness ==
    /\ query.op = "position"
    /\ game.nodes[query.node].position = NoPosition
    /\ game.nodes[query.node].parent \notin {0, RootId}
    /\ game.nodes[game.nodes[query.node].parent].position = ForeignPosition
    /\ query.position = MakeMove(ForeignPosition, game.nodes[query.node].move)

(***************************************************************************)
(* C14: the position of the root                                           *)
(***************************************************************************)
IsFenTag(tag) == tag.name = FenTag

\* the position the metadata describes: that of its first FEN tag, else the standard one
DescribedPosition(metadata) ==
    IF SelectSeq(metadata, IsFenTag) = <<>> THEN StartingPosition
    ELSE FenPosition(SelectSeq(metadata, IsFenTag)[1].value)

RootPosition == game.nodes[RootId].position

\* C14 as stated: in every reachable state the root caches the position described by the
\* metadata the game was built from; no tree operation removes or changes it.
C14_RootPositionNeverChanges == RootPosition = DescribedPosition(built)

\* a step of the client changes the cached position of the root only by set_position on
\* the root node, and no step removes it
RootPositionStep ==
    /\ RootPosition' # NoPosition
    /\ RootPosition' # RootPosition =>
           /\ cursor = RootId
           /\ game' = [game EXCEPT !.nodes = SetNodePosition(@, RootId, RootPosition')]

\* C14 amended: the root of a game always has a cached position; after construction it
\* is the position described by the first FEN tag of the metadata, or the standard
\* starting position without such a tag; only set_position called on the root node
\* replaces it, and no operation removes it.
C14_RootPositionPresent ==
    /\ RootPosition = DescribedPosition(built)
    /\ [][RootPositionStep]_vars

\* a game built from metadata with two FEN tags was edited, one of its nodes caches a
\* foreign position, and the root still holds the position of the first FEN tag
C14_Witness ==
    /\ Len(SelectSeq(built, IsFenTag)) = 2
    /\ RootPosition = FenPosition(FenWhite)
    /\ Cardinality(DOMAIN game.nodes) >= 3
    /\ \E h \in DOMAIN game.nodes : h # RootId /\ game.nodes[h].position = ForeignPosition

(***************************************************************************)
(* C15: the end of the main line                                           *)
(***************************************************************************)
\* node h is the root or the first child of its parent
IsFirstChild(nodes, h) ==
    nodes[h].parent = 0 \/ nodes[nodes[h].parent].children[1] = h

\* node h is reached from the root by following child(0) only
OnMainline(nodes, h) ==
    /\ \E k \in 0..MaxNodes : AncestorAt(nodes, h, k) = RootId
    /\ \A k \in 0..MaxNodes : AncestorAt(nodes, h, k) # 0 => IsFirstChild(nodes, AncestorAt(nodes, h, k))

MainlineAnswered == query' # query /\ query'.op = "current_mainline"

\* C15: current_mainline() terminates and returns a cursor whose node has no child 0 and
\* is reached from the root by following child(0) only.
C15_CurrentMainline ==
    [][MainlineAnswered =>
          /\ query'.node \in 1..Len(game.nodes)
          /\ game.nodes[query'.node].children = <<>>
          /\ OnMainline(game.nodes, query'.node)]_vars

\* the end of the main line was asked of a game whose first move has a variation, with
\* the main line two moves long
C15_Witness ==
    /\ query.op = "current_mainline"
    /\ Len(game.nodes[RootId].children) >= 2
    /\ AncestorAt(game.nodes, query.node, 2) = RootId

(***************************************************************************)
(* C16: move-number indications                                            *)
(***************************************************************************)
\* the stream after the Dot tokens that directly follow
RECURSIVE AfterDots(_)
AfterDotsFrom(s, r) == IF ~r.diverge /\ r.tok.type = "Dot" THEN AfterDots(r.s) ELSE s
AfterDots(s) == AfterDotsFrom(s, NextToken(s))

\* the spans <<first, last>> of the text that hold a Number token and the Dot tokens
\* that directly follow it, found by reading the tokens of the stream s
RECURSIVE NumberSpans(_)
NumberSpansFrom(r) ==
    IF r.diverge \/ r.tok.type = "EndOfInput" THEN {}
    ELSE IF r.tok.type = "Number"
    THEN {<<r.s.pos - Len(r.tok.value), AfterDots(r.s).pos - 1>>} \cup NumberSpans(AfterDots(r.s))
    ELSE NumberSpans(r.s)
NumberSpans(s) == NumberSpansFrom(NextToken(s))

ReplaceSpan(text, span, with) ==
    SubSeq(text, 1, span[1] - 1) \o with \o SubSeq(text, span[2] + 1, Len(text))

\* a move-number indication is deleted, or changed into another one
OtherIndications == {<<" ">>, <<"2", "3", " ", ".", ".", ".">>}

\* the text the last read_game call consumed
CallText == SubSeq(parser.lexer.text, obs.from, parser.lexer.pos - 1)

\* a parser as the one of the last read_game call was before the call, on another text
ParserBeforeCall(text) ==
    [NewParser(text) EXCEPT !.overall_game_comment = obs.carried.comment,
                            !.rav_stack = obs.carried.rav_stack]

\* the move-number indications in the movetext of the game the call returned, which
\* begins after the chess960 games the call skipped
IndicationsOfGame ==
    {span \in NumberSpans(NewStream(CallText)) : span[1] >= FirstOtherGame(CallText, 1)}

SameTreeFrom(q) == q.result = "game" /\ TreeOf(q.game, RootId) = TreeOf(parser.game, RootId)

GameReturned == parser.pc = "idle" /\ parser.result = "game"

\* C16: when read_game returned a game, the same call on the text with any one
\* move-number indication of that game's movetext (a Number token and the Dot tokens
\* directly following it) deleted or changed returns a game with the same tree.
C16_MoveNumbersIgnored ==
    GameReturned =>
        \A span \in IndicationsOfGame : \A with \in OtherIndications :
            SameTreeFrom(ReadGame(ParserBeforeCall(ReplaceSpan(CallText, span, with))))

\* the same for a call that began with no overall comment left over and skipped no game
MoveNumbersIgnoredWithoutLeftover ==
    (GameReturned /\ obs.carried.comment = <<>> /\ FirstOtherGame(CallText, 1) = 1) =>
        \A span \in IndicationsOfGame : \A with \in OtherIndications :
            SameTreeFrom(ReadGame(ParserBeforeCall(ReplaceSpan(CallText, span, with))))

\* reading the text of the call again from the state before the call gives the game
CallReplayed == GameReturned => SameTreeFrom(ReadGame(ParserBeforeCall(CallText)))

(***************************************************************************)
(* C17: the NAG lists of the nodes                                         *)
(***************************************************************************)
GameInHand == (parser.pc = "movetext" /\ ~Raised(parser)) \/ GameReturned

NagsOf(q, h) == IF h <= Len(q.game.nodes) THEN q.game.nodes[h].nags ELSE <<>>

\* what the token of a movetext step adds to the NAG list of node h, which is the
\* current node after a move token and the current node before a Nag token
NagsAdded(h) ==
    IF parser.token.type = "Symbol" /\ h = CurrentGameLine(parser')
    THEN SuffixNagOf(parser.token.value)
    ELSE IF parser.token.type = "NAG" /\ h = CurrentGameLine(parser)
    THEN <<DecimalValue(parser.token.value)>>
    ELSE <<>>

NagsFollowInput ==
    /\ (MovetextStepTaken /\ ~Raised(parser')) =>
           \A h \in 1..Len(parser'.game.nodes) :
               NagsOf(parser', h) = NagsOf(parser, h) \o NagsAdded(h)
    /\ (parser.pc = "idle" /\ parser'.pc = "movetext") => NagsOf(parser', RootId) = <<>>

SuffixThenNagToken ==
    /\ GameInHand
    /\ \E h \in 1..Len(parser.game.nodes) : parser.game.nodes[h].nags = <<2, 1>>

(***************************************************************************)
(* C19: generate_san_move for a move that is not in the list               *)
(***************************************************************************)
NotInList == \A i \in 1..Len(sanIn.moves) : sanIn.moves[i] # sanIn.move

\* C19: generate_san_move(move, moves) returns no value whenever move is not an element
\* of moves in all its fields, also when a move of the same piece to the same target
\* square is in moves.
C19_NoSanForForeignMove ==
    (sanOut.stage # "start" /\ NotInList) => sanOut.san = NoSanMove

\* no SAN was returned for a move that is not in the list while a move of the same piece
\* to the same target square is
C19_Witness ==
    /\ sanOut.stage = "generated"
    /\ NotInList
    /\ \E i \in 1..Len(sanIn.moves) :
           sanIn.moves[i].piece = sanIn.move.piece /\ sanIn.moves[i].to = sanIn.move.to
    /\ sanOut.san = NoSanMove

(***************************************************************************)
(* C20: minimal disambiguation                                             *)
(***************************************************************************)
\* the characters of s at the positions of I, in order
PickChars(s, I) ==
    LET picked[k \in 0..Len(s)] ==
            IF k = 0 THEN <<>>
            ELSE IF k \in I THEN Append(picked[k - 1], s[k]) ELSE picked[k - 1]
    IN picked[Len(s)]

\* the strings that are left when characters of s are dropped
ShorterStrings(s) == {PickChars(s, I) : I \in (SUBSET (1..Len(s))) \ {1..Len(s)}}

\* the string parses to a SAN move that matches the given move and no other of the list
MatchesOnlyTheMove(str) ==
    /\ ParseSan(str, sanIn.side).ok
    /\ MatchSanMove(ParseSan(str, sanIn.side).move, sanIn.moves) = <<sanIn.move>>

FileOrRankOnly ==
    /\ sanOut.stage # "start"
    /\ sanOut.san # NoSanMove
    /\ (sanOut.san.disambiguation_file = 0) # (sanOut.san.disambiguation_rank = 0)

\* C20: when generate_san_move produces a SAN with a file-only or a rank-only
\* disambiguation, no shorter SAN string matches exactly the given move among the
\* legal moves.
C20_DisambiguationMinimal ==
    FileOrRankOnly => \A str \in ShorterStrings(sanOut.san.san_string) : ~MatchesOnlyTheMove(str)

\* a SAN with a rank-only disambiguation was generated, and it matches the move alone
C20_Witness ==
    /\ sanOut.stage = "generated"
    /\ sanOut.san # NoSanMove
    /\ sanOut.san.disambiguation_file = 0 /\ sanOut.san.disambiguation_rank # 0
    /\ MatchesOnlyTheMove(sanOut.san.san_string)

\* a SAN with a file-only disambiguation was generated, and it matches the move alone
FileOnlyGenerated ==
    /\ sanOut.stage = "generated"
    /\ sanOut.san # NoSanMove
    /\ sanOut.san.disambiguation_file # 0 /\ sanOut.san.disambiguation_rank = 0
    /\ MatchesOnlyTheMove(sanOut.san.san_string)

(***************************************************************************)
(* C18: a move token without its capture marker                            *)
(***************************************************************************)
\* the legal moves of the current position that land on the square
LandingOn(square) ==
    SelectSeq(AllLegalMoves(CurrentPosition(parser)), LAMBDA move : move.to = square)

TokenSan == ParseSan(parser.token.value, CurrentPosition(parser).stm)

\* the movetext loop handles a move token that names a target square without a capture
\* marker, and the only legal move landing on that square is a capture
OnlyCaptureLands ==
    /\ MovetextStepTaken
    /\ parser.token.type = "Symbol"
    /\ TokenSan.ok /\ ~TokenSan.move.capturing
    /\ Len(LandingOn(TokenSan.move.target_square)) = 1
    /\ LandingOn(TokenSan.move.target_square)[1].captured # NoPiece

\* the token names the piece, and the file, rank and promotion if any, of the move
TokenDescribes(move) ==
    /\ TokenSan.move.moving_piece = move.piece
    /\ TokenSan.move.disambiguation_file \in {0, move.from.file}
    /\ TokenSan.move.disambiguation_rank \in {0, move.from.rank}
    /\ TokenSan.move.promotion = move.promoted

\* the step played the move and recorded one MoveMissingCapture warning, nothing else
ResolvedToCapture(move) ==
    /\ ~Raised(parser')
    /\ parser'.game.nodes[CurrentGameLine(parser')].move = move
    /\ parser'.game.nodes[CurrentGameLine(parser')].parent = CurrentGameLine(parser)
    /\ WarningTypes(parser') = WarningTypes(parser) \o <<"MoveMissingCapture">>

RejectedAsIllegal ==
    /\ parser'.result = "error" /\ parser'.error = "IllegalMove"
    /\ parser'.warnings = parser.warnings

\* C18 as stated: a move token that names a target square without a capture marker,
\* where the only legal move landing on the square is a capture, is resolved to that
\* capture with exactly one MoveMissingCapture warning.
C18_CaptureAdded ==
    [][OnlyCaptureLands => ResolvedToCapture(LandingOn(TokenSan.move.target_square)[1])]_vars

\* C18 amended: such a token is resolved to the capture, with exactly one
\* MoveMissingCapture warning, when it names the piece of the capture and its
\* disambiguation and promotion agree with it; otherwise it is rejected as IllegalMove.
C18_CaptureAddedForSamePiece ==
    [][OnlyCaptureLands =>
          IF TokenDescribes(LandingOn(TokenSan.move.target_square)[1])
          THEN ResolvedToCapture(LandingOn(TokenSan.move.target_square)[1])
          ELSE RejectedAsIllegal]_vars

\* the token d5 was resolved to the pawn capture on d5, the current node, with a
\* MoveMissingCapture warning
C18_Witness ==
    /\ GameInHand
    /\ parser.game.nodes[CurrentGameLine(parser)].move = W_cxd5
    /\ \E i \in 1..Len(parser.warnings) :
           /\ parser.warnings[i].type = "MoveMissingCapture"
           /\ parser.warnings[i].description = <<"d", "5">>

(***************************************************************************)
(* C21: what may follow a castling prefix                                  *)
(***************************************************************************)
\* the text after the castling prefix, the long one when the text starts with it
AfterCastling(text) ==
    IF Len(text) >= 5 /\ SubSeq(text, 1, 5) = <<"O", "-", "O", "-", "O">>
    THEN SubSeq(text, 6, Len(text))
    ELSE SubSeq(text, 4, Len(text))

CheckMarks == {<<>>, <<"+">>, <<"#">>}
Annotations == {<<>>, <<"!">>, <<"?">>, <<"!", "!">>, <<"?", "?">>, <<"!", "?">>, <<"?", "!">>}

\* an optional single + or #, then an optional suffix annotation, then the end
IsSuffixTail(rest) == \E c \in CheckMarks : \E a \in Annotations : rest = c \o a

CastlingParsed == sanOut.stage = "parsed" /\ sanIn.text # <<>>

\* C21: parse_san accepts a string that starts with O-O or O-O-O only when everything
\* after the castling prefix is a suffix tail; any other character after the prefix makes
\* it return an error.
C21_CastlingTailOnly ==
    (CastlingParsed /\ sanOut.parsed.ok) => IsSuffixTail(AfterCastling(sanIn.text))

\* every suffix tail after a castling prefix is accepted
SuffixTailAccepted ==
    (CastlingParsed /\ IsSuffixTail(AfterCastling(sanIn.text))) => sanOut.parsed.ok

(***************************************************************************)
(* C22: the end of the input is returned again and again                   *)
(***************************************************************************)
\* C22: once next_token has returned EndOfInput, every later call returns EndOfInput
\* again, and line_number() no longer changes.
C22_EndOfInputStays ==
    \A i \in 1..Len(obs.tokens) : \A j \in 1..Len(obs.tokens) :
        (i < j /\ obs.tokens[i].type = "EndOfInput")
            => /\ obs.tokens[j].type = "EndOfInput"
               /\ obs.tokens[j].line_number = obs.tokens[i].line_number

\* the end of a text of several lines was returned twice
C22_Witness ==
    /\ \E i \in 1..Len(obs.tokens) : \E j \in 1..Len(obs.tokens) :
           /\ i < j /\ i > 1
           /\ obs.tokens[i].type = "EndOfInput" /\ obs.tokens[j].type = "EndOfInput"
           /\ obs.tokens[j].line_number > 1

(***************************************************************************)
(* C23: whitespace between two tokens                                      *)
(***************************************************************************)
Pairs(seq) == [i \in 1..Len(seq) |-> <<seq[i].type, seq[i].value>>]

\* C23: a run of spaces, tabs, carriage returns or newlines added between two adjacent
\* tokens leaves the sequence of (type, value) pairs of the tokens unchanged.
C23_WhitespaceBetweenTokens ==
    /\ Pairs(obs.tokens) = Pairs(obs.respaced)
    /\ (parser.pc = "diverged") <=> (reread.pc = "diverged")

\* both texts were lexed to their end, a newline was added and the lines differ
C23_Witness ==
    /\ reread.lexer.text # parser.lexer.text
    /\ Len(obs.tokens) >= 3
    /\ obs.tokens[Len(obs.tokens)].type = "EndOfInput"
    /\ obs.tokens[Len(obs.tokens)].line # obs.respaced[Len(obs.tokens)].line

(***************************************************************************)
(* C24: the value of a Comment token                                       *)
(***************************************************************************)
\* the position of the first character at or after p that is not whitespace
RECURSIVE FirstNonWhitespace(_, _)
FirstNonWhitespace(text, p) ==
    IF p <= Len(text) /\ IsWhitespace(text[p]) THEN FirstNonWhitespace(text, p + 1) ELSE p

\* every maximal run of whitespace replaced by one space
RECURSIVE CollapseWhitespace(_)
CollapseWhitespace(str) ==
    IF str = <<>> THEN <<>>
    ELSE IF IsWhitespace(Head(str))
    THEN <<" ">> \o CollapseWhitespace(SubSeq(str, FirstNonWhitespace(str, 1), Len(str)))
    ELSE <<Head(str)>> \o CollapseWhitespace(Tail(str))

\* every whitespace character replaced by one space
SpaceForWhitespace(str) == [i \in 1..Len(str) |-> IF IsWhitespace(str[i]) THEN " " ELSE str[i]]

Newlines(str) == Cardinality({i \in 1..Len(str) : str[i] = "\n"})

\* the text between the brace that opens the comment token t and the brace that closes it
CommentInside(text, t) == SubSeq(text, FirstNonWhitespace(text, t.from) + 1, t.to - 2)

CommentTokens == {i \in 1..Len(obs.tokens) : obs.tokens[i].type = "Comment"}

\* C24: the value of a Comment token is the text between { and the next } with every
\* maximal run of whitespace replaced by exactly one space, and the line counter has
\* grown by the number of newlines inside the comment.
C24_CommentCollapsed ==
    \A i \in CommentTokens :
        LET t == obs.tokens[i]
            inside == CommentInside(parser.lexer.text, t)
        IN /\ t.value = CollapseWhitespace(inside)
           /\ t.line_number = t.line_before
                  + Newlines(SubSeq(parser.lexer.text, t.from, t.to - 1))

\* the value has one space for every whitespace character, and the lines are counted
CommentSpaced ==
    \A i \in CommentTokens :
        LET t == obs.tokens[i]
            inside == CommentInside(parser.lexer.text, t)
        IN /\ "}" \notin Range(inside)
           /\ parser.lexer.text[t.to - 1] = "}"
           /\ t.value = SpaceForWhitespace(inside)
           /\ t.line_number = t.line_before
                  + Newlines(SubSeq(parser.lexer.text, t.from, t.to - 1))
           /\ t.line = t.line_number

(***************************************************************************)
(* C25: the tag section                                                    *)
(***************************************************************************)
\* the line of one tag pair
TagLine(name, value) == <<"[">> \o name \o <<" ", "\"">> \o value \o <<"\"", "]", "\n">>

RECURSIVE TagLines(_)
TagLines(tags) ==
    IF tags = <<>> THEN <<>> ELSE TagLine(Head(tags).name, Head(tags).value) \o TagLines(Tail(tags))

\* the seven tags of the roster, each with the value found in the metadata or ?
RosterTags(metadata) ==
    [k \in 1..Len(StrTags) |->
        [name |-> StrTags[k], value |-> ValueOr(MetadataGet(metadata, StrTags[k]), <<"?">>)]]

\* the same tags in every order
Reorderings(seq) ==
    {[i \in 1..Len(seq) |-> seq[f[i]]] :
        f \in {g \in [1..Len(seq) -> 1..Len(seq)] : \A i, j \in 1..Len(seq) : g[i] = g[j] => i = j}}

AscendingNames(tags) ==
    \A i \in 1..(Len(tags) - 1) : ~StringLess(tags[i + 1].name, tags[i].name)

\* the roster, the other tags by ascending name, one empty line
IsTagSection(out, metadata) ==
    \E others \in Reorderings(NonStrTags(metadata)) :
        /\ AscendingNames(others)
        /\ out = TagLines(RosterTags(metadata)) \o TagLines(others) \o <<"\n">>

MetadataWritten == writer.out # <<>>

\* C25: write_metadata emits the seven tags of the roster in their order, each once with
\* the value found in the metadata or ?, then every other tag by ascending name, then one
\* empty line; the order in which the tags were added does not influence the output.
C25_TagSection ==
    MetadataWritten =>
        /\ IsTagSection(writer.out, built)
        /\ \A other \in Reorderings(built) : WriteMetadata(NewWriter, other).out = writer.out

TagFits(tag) == Len(TagLine(tag.name, tag.value)) - 1 <= MaxLineLength

\* with no tag pair longer than a line the output is the tag section
TagSectionOfShortTags ==
    (MetadataWritten /\ \A i \in 1..Len(built) : TagFits(built[i]))
        => IsTagSection(writer.out, built)

\* with no name added twice the order of adding is without influence
OrderOfDistinctNames ==
    (MetadataWritten /\ \A i, j \in 1..Len(built) : built[i].name = built[j].name => i = j)
        => \A other \in Reorderings(built) : WriteMetadata(NewWriter, other).out = writer.out

(***************************************************************************)
(* C26: the length of the output lines                                     *)
(***************************************************************************)
\* the index of the last newline of the output, 0 when it has none
LastNewline(out) ==
    IF \E i \in 1..Len(out) : out[i] = "\n"
    THEN CHOOSE i \in 1..Len(out) : out[i] = "\n" /\ \A j \in (i + 1)..Len(out) : out[j] # "\n"
    ELSE 0

\* the number of characters on the line the output ends with
CurrentLineLength(out) == Len(out) - LastNewline(out)

\* no line of the output has more than n characters
LinesWithin(out, n) ==
    \A i \in 1..(Len(out) - n) : \E k \in i..(i + n) : out[k] = "\n"

\* the token written last would have pushed the line past the limit
PastLimit ==
    /\ obs.op = "write"
    /\ obs.before.current_line_length + Len(obs.arg)
           + (IF NeedsWhitespace(obs.before, obs.type) THEN 1 ELSE 0) > MaxLineLength

StartsNewLine ==
    PastLimit => writer.out = obs.before.out \o <<"\n">> \o obs.arg

AddedText ==
    LET all == SubSeq(writer.out, Len(obs.before.out) + 1, Len(writer.out))
    IN IF all # <<>> /\ Head(all) \in {" ", "\n"} THEN Tail(all) ELSE all

Count(ch, str) == Cardinality({i \in 1..Len(str) : str[i] = ch})

\* str is { and }, with the comment between them, a line end in place of a space at most
ClosedComment(str, comment) ==
    /\ Len(str) = Len(comment) + 2
    /\ Head(str) = "{" /\ str[Len(str)] = "}"
    /\ Count("{", str) = 1 /\ Count("}", str) = 1
    /\ SpaceForWhitespace(SubSeq(str, 2, Len(str) - 1)) = comment

\* C28: for every non-empty comment, with any number of words, the output for the
\* comment starts with exactly one { and ends with exactly one } with the words of the
\* comment in between.
C28_CommentClosed ==
    obs.op = "write_comment" => ClosedComment(AddedText, obs.arg)

\* a comment of two words or more is written closed
CommentOfWordsClosed ==
    (obs.op = "write_comment" /\ Len(SplitIntoWords(obs.arg)) >= 2)
        => ClosedComment(AddedText, obs.arg)

(***************************************************************************)
(* C29: the side to move of a cursor                                       *)
(***************************************************************************)
SideToMoveAnswered == query.op = "side_to_move"

\* C29: for every node, side_to_move() of a cursor on it is the side to move of the
\* cursor's position(): the opponent of the color of the piece moved for a node below
\* the root, the side to move of the root position at the root.
C29_SideToMoveOfPosition ==
    SideToMoveAnswered => query.color = CalculatePosition(game.nodes, query.node).stm

\* every node from h up to the root holds a move of the side that was to move, and no
\* node below the root was given a position
RECURSIVE PlayedInTurn(_, _)
PlayedInTurn(nodes, h) ==
    \/ nodes[h].parent = 0
    \/ /\ nodes[h].position = NoPosition
       /\ nodes[h].move.piece.color = CalculatePosition(nodes, nodes[h].parent).stm
       /\ PlayedInTurn(nodes, nodes[h].parent)

\* below the root the answer is the side to move of the position when the moves were
\* played in turn
SideToMoveBelowRoot ==
    (SideToMoveAnswered /\ query.node # 1 /\ PlayedInTurn(game.nodes, query.node))
        => query.color = CalculatePosition(game.nodes, query.node).stm

(***************************************************************************)
(* C27: the move numbers of the written movetext                           *)
(***************************************************************************)
\* the moves and parentheses written before the i-th token
MarksBefore(log, i) == {j \in 1..(i - 1) : log[j].type \in {"Move", "RavStart", "RavEnd"}}

\* the i-th token is the first move written after a parenthesis
FirstAfterParenthesis(log, i) ==
    /\ MarksBefore(log, i) # {}
    /\ log[CHOOSE j \in MarksBefore(log, i) : \A k \in MarksBefore(log, i) : k <= j].type
           \in {"RavStart", "RavEnd"}

\* the token in front of the i-th is the move number n with the dots
NumberedWith(log, i, n, dots) ==
    i > 1 /\ log[i - 1].type = "MoveNumber" /\ log[i - 1].token = ToDecimal(n) \o dots

Numbered(log, i) == i > 1 /\ log[i - 1].type = "MoveNumber"

MoveNumbered(log, i) ==
    IF log[i].from.stm = W
    THEN NumberedWith(log, i, log[i].from.fullmove, <<".">>)
    ELSE IF FirstAfterParenthesis(log, i)
    THEN NumberedWith(log, i, log[i].from.fullmove, <<".", ".", ".">>)
    ELSE ~Numbered(log, i)

\* C27: in the written movetext every move of White is preceded by N. and a move of
\* Black by N... exactly when it is the first move written after a ( or after a ); N is
\* the full-move number of the position the move is played from.
C27_MoveNumbers ==
    \A i \in 1..Len(writer.log) : writer.log[i].type = "Move" => MoveNumbered(writer.log, i)

BlackMoveAt(log, i) == log[i].type = "Move" /\ log[i].from.stm = B

\* a game was written with a move of Black behind ( and one that has no number
C27_Witness ==
    /\ \E i \in 1..Len(writer.log) :
           BlackMoveAt(writer.log, i) /\ Numbered(writer.log, i) /\ writer.log[i - 2].type = "RavStart"
    /\ \E i \in 1..Len(writer.log) : BlackMoveAt(writer.log, i) /\ ~Numbered(writer.log, i)

\* a game was written with a move of Black as the first move behind )
BlackMoveAfterRav ==
    \E i \in 1..Len(writer.log) :
        /\ BlackMoveAt(writer.log, i) /\ Numbered(writer.log, i)
        /\ writer.log[i - 2].type = "RavEnd"

(***************************************************************************)
(* C30: the main line of a parsed game                                     *)
(***************************************************************************)
\* the moves found by following child(0) from the node h
RECURSIVE MovesOnMainline(_, _)
MovesOnMainline(nodes, h) ==
    IF nodes[h].children = <<>> THEN <<>>
    ELSE <<nodes[nodes[h].children[1]].move>> \o MovesOnMainline(nodes, nodes[h].children[1])

\* C30: for every successfully parsed game, following child(0) from the root yields
\* exactly the moves written outside all parentheses in the movetext, in input order,
\* also when the first move of a RAV equals the main-line move it is an alternative to.
C30_MainlineOutsideParentheses ==
    (GameReturned /\ obs.ravs = <<>>) => MovesOnMainline(parser.game.nodes, 1) = obs.outside

\* no RAV of the game repeated a move that its parent node has as a child: every move
\* token made a node
NoMoveRepeated == ~obs.repeated

\* without a RAV that starts with the move it is an alternative to, the main line is the
\* moves outside the parentheses
MainlineWithoutRepeatedMove ==
    (GameReturned /\ obs.ravs = <<>> /\ NoMoveRepeated)
        => MovesOnMainline(parser.game.nodes, 1) = obs.outside

(***************************************************************************)
(* C31: the stack discipline of RAVs                                       *)
(***************************************************************************)
\* the step read the first move of the innermost open RAV
FirstRavMoveRead == Handled("Symbol") /\ ~Raised(parser') /\ InRavWithoutMove

\* the step read the ) of the innermost open RAV
RavClosed == Handled("CloseParen") /\ ~Raised(parser') /\ obs.ravs # <<>>

\* node h is a sibling of node at in game g: another node with the same parent
Sibling(g, h, at) == h # at /\ g.nodes[h].parent = g.nodes[at].parent

\* the first move of a RAV is a sibling of the node that was current at its (
FirstRavMoveIsSibling ==
    FirstRavMoveRead => Sibling(parser'.game, CurrentGameLine(parser'), Top(obs.ravs).at)

\* the number of RAVs with a move read so far after node h
OpenedAt(h) == Cardinality({i \in 1..Len(obs.opened) : obs.opened[i] = h})

\* the n-th RAV with a move read after a main-line move starts at child n of the move's
\* parent
RavsInInputOrder ==
    (FirstRavMoveRead /\ parser.game.nodes[CurrentGameLine(parser)].children[1] = Top(obs.ravs).at)
        => /\ Len(parser'.game.nodes[CurrentGameLine(parser)].children) > OpenedAt(Top(obs.ravs).at) + 1
           /\ parser'.game.nodes[CurrentGameLine(parser)].children[OpenedAt(Top(obs.ravs).at) + 2]
                  = CurrentGameLine(parser')

\* after the matching ) the current node is the node that was current at the (
BackAfterRav == RavClosed => CurrentGameLine(parser') = Top(obs.ravs).at

\* C31: the moves of a RAV are played from the parent of the node that was current when
\* ( was read, so the first move of the RAV is a sibling of that node; successive RAVs
\* after the same move become children 1, 2, ... in input order; after the matching )
\* the current node is again the node that was current when ( was read.
C31_RavStackDiscipline ==
    [][FirstRavMoveIsSibling /\ RavsInInputOrder /\ BackAfterRav]_vars

\* at every nesting depth the ) of a RAV brings back the node that was current at its (,
\* and all moves of a RAV are played from that node's parent
C31_BackAfterRav ==
    [][/\ BackAfterRav
       /\ FirstRavMoveRead
              => parser.game.nodes[Top(obs.ravs).at].parent = CurrentGameLine(parser)]_vars

\* the first move of a RAV that makes a new node is a sibling of the node current at (,
\* and in input order among the RAVs after a main-line move while no move token of the
\* game repeated an existing move
C31_NewFirstMoveIsSibling ==
    [][(FirstRavMoveRead /\ Len(parser'.game.nodes) > Len(parser.game.nodes))
           => /\ Sibling(parser'.game, CurrentGameLine(parser'), Top(obs.ravs).at)
              /\ ~obs.repeated => RavsInInputOrder]_vars

(***************************************************************************)
(* C32: the comment of the root at game setup                              *)
(***************************************************************************)
\* the position in the text of the game that the last read_game call set up
SetUpAt == FirstOtherGame(parser.lexer.text, obs.from)

\* the text of the Comment token that directly follows the tag section of the game at
\* position k, empty when there is none
OwnOverallComment(text, k) == HeadAt(text, k).overall_game_comment

\* C32: for every game read_game returns, the comment the parser set on the root at game
\* setup is the text of the Comment token that directly follows the game's own tag
\* section, and no comment when the game has no such token, whatever earlier games
\* contained.
C32_RootCommentOfOwnGame ==
    GameReturned
        => /\ SetUpAt # 0
           /\ obs.setup = OwnOverallComment(parser.lexer.text, SetUpAt)

\* a game whose tag section is followed by a Comment token gets that comment at setup
C32_OwnCommentSet ==
    (GameReturned /\ SetUpAt # 0 /\ OwnOverallComment(parser.lexer.text, SetUpAt) # <<>>)
        => obs.setup = OwnOverallComment(parser.lexer.text, SetUpAt)

(***************************************************************************)
(* C33: no comment of the movetext is lost                                 *)
(***************************************************************************)
\* the game g keeps the text in the comment or the premove_comment of some node
Kept(g, text) ==
    \E h \in 1..Len(g.nodes) :
        Contains(g.nodes[h].comment, text) \/ Contains(g.nodes[h].premove_comment, text)

\* C33: for every game read_game returns, the text of every Comment token read in its
\* movetext is contained in the comment or the premove_comment of some node of the
\* returned tree.
C33_NoCommentLost ==
    GameReturned => \A i \in 1..Len(obs.comments) : Kept(parser.game, obs.comments[i])

\* a step on a Comment token read outside a RAV, or in a RAV after its first move, adds
\* the text to the current node, and no step of the loop shortens a comment of a node
C33_CommentsOfNodesGrow ==
    [][/\ (Handled("Comment") /\ ~Raised(parser') /\ ~InRavWithoutMove
              /\ parser.rav_stack = <<>>)
           => Kept(parser'.game, parser.token.value)
       /\ (parser.pc = "movetext" /\ parser'.pc # "head" /\ ~Raised(parser'))
           => \A h \in 1..Len(parser.game.nodes) :
                  /\ StartsWith(parser'.game.nodes[h].comment, parser.game.nodes[h].comment)
                  /\ parser.game.nodes[h].premove_comment # <<>>
                         => Contains(parser'.game.nodes[h].premove_comment,
                                     parser.game.nodes[h].premove_comment)]_vars

(***************************************************************************)
(* C34: termination of next_token, checked under SpecLexer                 *)
(***************************************************************************)
\* C34: every call of next_token on a finite input terminates, returning a token or
\* raising InputError, also on an input that ends inside a brace comment; no call is
\* left in a loop that never ends.
C34_NextTokenTerminates == parser.pc # "diverged"

\* the text has a { that no } follows
EndsInsideComment(text) ==
    \E i \in 1..Len(text) : text[i] = "{" /\ \A j \in (i + 1)..Len(text) : text[j] # "}"

\* a call of next_token that does not return was made on a text that ends inside a
\* brace comment
C34_TerminatesOutsideComment == parser.pc = "diverged" => EndsInsideComment(parser.lexer.text)

(***************************************************************************)
(* C35: the cursor stack and the stack of RAV descriptors                  *)
(***************************************************************************)
\* the cursor stack holds one entry more than the RAV-descriptor stack
StacksAligned(p) == Len(p.cursors) = Len(p.rav_stack) + 1

\* only one cursor and no RAV descriptor
StacksAtBase(p) == Len(p.cursors) = 1 /\ p.rav_stack = <<>>

\* a read_game call has set up a game and is about to parse its movetext
MovetextStarted == parser.pc = "idle" /\ parser'.pc = "movetext"

\* C35: whenever movetext is being parsed the cursor stack holds exactly one more entry
\* than the RAV-descriptor stack; at the start of every game's movetext the cursor stack
\* holds only the root cursor and the RAV-descriptor stack is empty, and both are in
\* that base state again when read_game returns a game.
C35_StacksInStep ==
    /\ [](parser.pc = "movetext" => StacksAligned(parser))
    /\ [][MovetextStarted => (parser'.cursors = <<1>> /\ StacksAtBase(parser'))]_vars
    /\ [](GameReturned => StacksAtBase(parser))

\* the stacks are aligned during the movetext of a game that started with no RAV
\* descriptor left over, and the cursor stack always starts with only the root cursor
C35_AlignedFromCleanStart ==
    /\ []((parser.pc = "movetext" /\ obs.carried.rav_stack = <<>>) => StacksAligned(parser))
    /\ [][MovetextStarted => parser'.cursors = <<1>>]_vars

\* a game is returned with the stacks at their base when it started with no RAV
\* descriptor left over and all its RAVs are closed
C35_BaseWhenRavsClosed ==
    (GameReturned /\ obs.carried.rav_stack = <<>> /\ obs.ravs = <<>>) => StacksAtBase(parser)

(***************************************************************************)
(* SpecNag: read_game on a game with one Nag token                         *)
(***************************************************************************)
MaxNagDigits == 10
NagDigits == {"1", "9"}

\* a game of one move followed by a Nag token with the given digits
NagText(digits) ==
    TagResult \o <<" ", "1", ".", " ", "e", "4", " ", "$">> \o digits \o <<" ", "*">>

NagInit ==
    /\ TreeStart
    /\ SanIdle
    /\ \E digits \in TextsUpTo(NagDigits, MaxNagDigits) : parser = NewParser(NagText(digits))
    /\ closed = TRUE
    /\ fed = 0
    /\ starved = FALSE
    /\ obs = NoObs
    /\ writer = NewWriter
    /\ reread = NewParser(<<>>)

NagNext ==
    \/ CallReadGame
    \/ StepNumber
    \/ StepSymbol
    \/ StepNag
    \/ StepGameResult

SpecNag == NagInit /\ [][NagNext]_vars

(***************************************************************************)
(* C36: the errors of read_game, checked under SpecNag                     *)
(***************************************************************************)
PGNErrorTypes ==
    {"InputError", "UnexpectedChar", "UnexpectedToken", "InvalidMove", "IllegalMove",
     "AmbiguousMove", "InvalidGameResult", "CannotStartRav", "NoPenRav", "EndOfInput"}

\* the last call failed with a PGNError of one of the PGN error kinds
FailedWithPGNError(p) == p.result = "error" /\ p.error \in PGNErrorTypes

\* C36: whenever read_game fails it fails with a PGNError that carries one of the PGN
\* error kinds; no exception of another type escapes, for every Nag token the lexer can
\* produce, with an empty or an arbitrarily long digit string.
C36_FailsWithPGNError ==
    (parser.pc = "idle" /\ Raised(parser)) => FailedWithPGNError(parser)

\* the digits of the Nag token of the text
NagDigitsOf(text) == SubSeq(text, Len(NagText(<<>>)) - 1, Len(text) - 2)

\* an exception that is no PGNError comes from std::stoi: std::invalid_argument for a Nag
\* token without digits, std::out_of_range for one above the largest int
C36_ExceptionsOfStoI ==
    parser.result = "exception"
        => /\ parser.token.type = "NAG"
           /\ parser.error = IF parser.token.value = <<>> THEN "std::invalid_argument"
                             ELSE "std::out_of_range"
           /\ parser.token.value # <<>>
                  => (Len(parser.token.value) = MaxNagDigits /\ Head(parser.token.value) = "9")

\* a Nag token of one to nine digits, or of ten digits up to the largest int, is added
\* to the NAGs of the move and the game is returned
C36_NagInRangeRead ==
    (GameReturned /\ NagDigitsOf(parser.lexer.text) # <<>>)
        => parser.game.nodes[2].nags = <<DecimalValue(NagDigitsOf(parser.lexer.text))>>

(***************************************************************************)
(* C37, C38: the shape of the tree, checked under Spec                     *)
(***************************************************************************)
\* node h keeps its id, its move, its parent and every child at its index
NodeStays(h) ==
    /\ game'.nodes[h].id = game.nodes[h].id
    /\ game'.nodes[h].move = game.nodes[h].move
    /\ game'.nodes[h].parent = game.nodes[h].parent
    /\ Len(game'.nodes[h].children) >= Len(game.nodes[h].children)
    /\ \A i \in 1..Len(game.nodes[h].children) :
           game'.nodes[h].children[i] = game.nodes[h].children[i]

\* C37: the tree is append-only: a node that is the child with index i of a parent
\* remains the child with index i of that parent in every later state, with the same id
\* and the same move; no operation removes a node, reorders children or changes a
\* node's parent.
C37_AppendOnly ==
    [][/\ Len(game'.nodes) >= Len(game.nodes)
       /\ \A h \in 1..Len(game.nodes) : NodeStays(h)]_vars

\* a call appended a second child to the parent of the call before
C37_Witness ==
    /\ call.n = 2 /\ call.created /\ prev.created
    /\ call.parent = prev.parent
    /\ game.nodes[call.parent].children = <<prev.ret, call.ret>>

\* the nodes of the tree below node h, h included
RECURSIVE Below(_, _)
Below(nodes, h) ==
    {h} \cup UNION {Below(nodes, nodes[h].children[i]) : i \in 1..Len(nodes[h].children)}

\* the places of node h in the child lists of the tree
PlacesOf(nodes, h) ==
    {pi \in (1..Len(nodes)) \X (1..MaxNodes) :
        pi[2] <= Len(nodes[pi[1]].children) /\ nodes[pi[1]].children[pi[2]] = h}

\* the id of the candidate node of the last add_node call
CandidateId == game.next_id - (IF call.created THEN 1 ELSE 2)

\* C38: the nodes of a game form a tree with consistent links: the root has no parent,
\* every child c in the child list of p has p as its parent, every node reachable from
\* the root appears in exactly one child list exactly once, and a candidate node dropped
\* by deduplication is not reachable from the root.
C38_TreeWithConsistentLinks ==
    /\ game.nodes[1].parent = 0
    /\ PlacesOf(game.nodes, 1) = {}
    /\ \A p \in 1..Len(game.nodes) : \A i \in 1..Len(game.nodes[p].children) :
           game.nodes[game.nodes[p].children[i]].parent = p
    /\ \A h \in Below(game.nodes, 1) \ {1} : Cardinality(PlacesOf(game.nodes, h)) = 1
    /\ (call.n >= 1 /\ ~call.created)
           => \A h \in Below(game.nodes, 1) : game.nodes[h].id # CandidateId

\* a call found an existing child below a node that is not the root
C38_Witness ==
    /\ call.n = 2 /\ ~call.created /\ prev.created
    /\ call.parent # 1
    /\ Cardinality(Below(game.nodes, 1)) >= 3

(***************************************************************************)
(* C39: a returned game and the later calls, checked under SpecParser      *)
(***************************************************************************)
\* the nodes of the Game that read_game returned last, as its holder sees them: the
\* nodes of m_game while m_game still has the same root node object
HeldNodes == IF obs.held.root = parser.game_root THEN parser.game.nodes ELSE obs.kept

\* C39: a game returned by read_game is left unchanged by every later read_game or
\* skip_to_next_game call on the same parser: its nodes, their moves, comments, NAGs
\* and child lists stay as they were when it was returned, although the returned Game
\* shares its root node with the parser's game at the moment of return.
C39_ReturnedGameUnchanged == obs.held.root # 0 => HeldNodes = obs.held.nodes

\* a later read_game call has set up another game and read a move of it
C39_Witness ==
    /\ obs.held.root # 0
    /\ parser.game_root > obs.held.root
    /\ Len(parser.game.nodes) > 1
    /\ parser.game.nodes # obs.held.nodes

=============================================================================
